---- MODULE Spec2Model ----
(***************************************************************************)
(* Model of the extraction-and-enrichment subsystem of agent-memory-server *)
(*   agent_memory_server/llms.py        provider clients, client cache      *)
(*   agent_memory_server/extraction.py  topic / discrete memory extraction  *)
(* Each coroutine is cut at its await points: one action is the code that   *)
(* runs from the completion of one awaited call to the start of the next.   *)
(***************************************************************************)
EXTENDS Integers, Sequences, FiniteSets, TLC

\* ------------------------------------------------------------------ bounds
MaxRecords == 2      \* records held by the store in Spec
MaxScan == 51        \* eligible records held by the store in SpecSelect
MaxTasks == 2        \* tasks calling get_model_client in SpecClient
MaxTopics == 4       \* topics in one reply, and the largest count asked for
MaxCalls == 3        \* calls of the two cached extractors in SpecModels
MaxTokens == 3       \* tokens the NER model returns for one text
MaxParts == 3        \* content parts of one Anthropic message
MaxApiCalls == 2     \* calls of the llms.py functions in SpecLlms

\* ------------------------------------------------------- program constants
PageSize == 25       \* limit=25, offset += 25
MaxAttempts == 3     \* stop_after_attempt(3)
UlidBase == 1000     \* generated ids live apart from the stored ids

None == "None"
Absent == "<absent>"  \* a key that a JSON mapping does not carry

\* settings (config.py)
generation_model == "gpt-4o-mini"
topic_model == "gpt-4o-mini"
BatchSize == 20
top_k_topics == 3

\* ---------------------------------------------------------------- helpers
Range(s) == {s[i] : i \in DOMAIN s}

RECURSIVE SeqCount(_, _)
SeqCount(s, x) ==
    IF s = <<>> THEN 0
    ELSE (IF Head(s) = x THEN 1 ELSE 0) + SeqCount(Tail(s), x)

Min(a, b) == IF a < b THEN a ELSE b

\* s[lo+1 .. hi] clipped to the sequence, as a python slice s[lo:hi]
Slice(s, lo, hi) == SubSeq(s, lo + 1, Min(hi, Len(s)))

\* =========================================================== llms.py ======
ModelProvider == {"openai", "anthropic"}

OpenAIModels ==
    {"gpt-3.5-turbo", "gpt-3.5-turbo-16k", "gpt-4", "gpt-4-32k", "gpt-4o",
     "gpt-4o-mini", "o1", "o1-mini", "o3-mini", "text-embedding-ada-002",
     "text-embedding-3-small", "text-embedding-3-large"}

AnthropicModels ==
    {"claude-3-opus-20240229", "claude-3-sonnet-20240229",
     "claude-3-haiku-20240307", "claude-3-5-sonnet-20240620",
     "claude-3-7-sonnet-20250219", "claude-3-5-sonnet-20241022",
     "claude-3-5-haiku-20241022", "claude-3-7-sonnet-latest",
     "claude-3-5-sonnet-latest", "claude-3-5-haiku-latest",
     "claude-3-opus-latest"}

ModelMaxTokens(name) ==
    CASE name = "gpt-3.5-turbo" -> 4096
      [] name = "gpt-3.5-turbo-16k" -> 16384
      [] name = "gpt-4" -> 8192
      [] name = "gpt-4-32k" -> 32768
      [] name \in {"gpt-4o", "gpt-4o-mini", "o1-mini"} -> 128000
      [] name \in {"text-embedding-ada-002", "text-embedding-3-small",
                   "text-embedding-3-large"} -> 8191
      [] OTHER -> 200000

MODEL_CONFIGS ==
    [name \in OpenAIModels \cup AnthropicModels |->
        [provider |-> IF name \in OpenAIModels THEN "openai" ELSE "anthropic",
         max_tokens |-> ModelMaxTokens(name)]]

\* the fallback is another entry of the table
get_model_config_other(model_name) ==
    IF model_name \in DOMAIN MODEL_CONFIGS
    THEN MODEL_CONFIGS[model_name]
    ELSE MODEL_CONFIGS["gpt-4"]

get_model_config(model_name) ==
    IF model_name \in DOMAIN MODEL_CONFIGS
    THEN MODEL_CONFIGS[model_name]
    ELSE MODEL_CONFIGS["gpt-4o-mini"]

EnvKeys == {"OPENAI_API_KEY", "OPENAI_API_BASE", "ANTHROPIC_API_KEY"}

\* A provider argument is an enum member or a plain string.
ProviderArgs ==
    [kind : {"enum"}, value : ModelProvider]
    \cup [kind : {"str"}, value : ModelProvider \cup {"bogus"}]

\* ModelProvider(provider): the enum member of that value, or ValueError
ToProviderEnum(provider) ==
    IF provider.kind = "enum" THEN [raised |-> None, value |-> provider.value]
    ELSE IF provider.value \in ModelProvider
         THEN [raised |-> None, value |-> provider.value]
         ELSE [raised |-> "ValueError", value |-> None]

\* What a caller may pass for api_key, and for base_url; None and the empty
\* string are falsy.
KeyArgs == {None, "", "sk-key"}
BaseArgs == {None, "http://base"}
Truthy(v) == v \notin {None, ""}

\* OpenAIClientWrapper.__init__(api_key, base_url) under environment e: the
\* exception it raises or the object it leaves.
OpenAIClientWrapperNew(api_key, base_url, e) ==
    LET openai_api_base == Truthy(base_url) \/ e["OPENAI_API_BASE"]
        openai_api_key == Truthy(api_key) \/ e["OPENAI_API_KEY"]
    IN IF ~openai_api_key
       THEN [raised |-> "ValueError", obj |-> None]
       ELSE [raised |-> None,
             obj |-> [provider |-> "openai",
                      api_key |-> openai_api_key,
                      \* the final if/else keeps the clients only under a base URL
                      client |-> openai_api_base]]

\* the constructor hands out an object without a key
AnthropicClientWrapperNew_lazy(api_key, e) ==
    LET anthropic_api_key == Truthy(api_key) \/ e["ANTHROPIC_API_KEY"]
    IN [raised |-> None,
        obj |-> [provider |-> "anthropic", api_key |-> anthropic_api_key,
                 client |-> anthropic_api_key]]

\* AnthropicClientWrapper.__init__(api_key) under environment e
AnthropicClientWrapperNew(api_key, e) ==
    LET anthropic_api_key == Truthy(api_key) \/ e["ANTHROPIC_API_KEY"]
    IN IF ~anthropic_api_key
       THEN [raised |-> "ValueError", obj |-> None]
       ELSE [raised |-> None,
             obj |-> [provider |-> "anthropic", api_key |-> anthropic_api_key,
                      client |-> TRUE]]

\* os.environ.get(key) as get_model_client passes it on
EnvGet(e, key) == IF e[key] THEN "sk-key" ELSE None

\* OpenAIClientWrapper(api_key=os.environ.get("OPENAI_API_KEY"))
OpenAIClientWrapperInit(e) ==
    OpenAIClientWrapperNew(EnvGet(e, "OPENAI_API_KEY"), None, e)

\* AnthropicClientWrapper(api_key=os.environ.get("ANTHROPIC_API_KEY"))
AnthropicClientWrapperInit(e) ==
    AnthropicClientWrapperNew(EnvGet(e, "ANTHROPIC_API_KEY"), e)

\* the embedding call goes to the provider whatever the class
create_embedding_sent(obj, len, fails) ==
    IF ~obj.client THEN [raised |-> "ValueError", network |-> 0]
    ELSE IF fails /\ len > 0 THEN [raised |-> "ProviderError", network |-> 1]
    ELSE [raised |-> None, network |-> (len + BatchSize - 1) \div BatchSize]

\* create_embedding of either class on a list of len texts: the exception it
\* raises or None, and the requests it sent to the provider.
create_embedding(obj, len, fails) ==
    IF obj.provider = "anthropic"
    THEN [raised |-> "NotImplementedError", network |-> 0]
    ELSE IF ~obj.client THEN [raised |-> "ValueError", network |-> 0]
    ELSE IF fails /\ len > 0 THEN [raised |-> "ProviderError", network |-> 1]
    ELSE [raised |-> None, network |-> (len + BatchSize - 1) \div BatchSize]


VARIABLES
    \* ---- process-wide state of llms.py
    env,                \* os.environ: which of EnvKeys hold a non-empty value
    model_clients,      \* _model_clients: provider -> instance (0: no entry)
    instances,          \* every successfully constructed client, by identity
    \* ---- tasks that call get_model_client
    task_pc, task_arg, task_result,
    task_first,         \* the task was created while the cache had no entry
    \* ---- the storage adapter and the long-term index
    store,              \* stored records, in the adapter's scan order
    store0,             \* the store as the invocation found it
    long_term,          \* records index_long_term_memories has taken
    \* ---- one invocation of extract_discrete_memories
    input, deduplicate, \* its arguments
    pc, error, client, memories, offset, idx, attempt_number,
    new_discrete_memories, updated_memories, long_term_memories, next_ulid,
    \* ---- the calls it has made, in order
    search_calls, chat_calls, delete_calls, update_calls, index_calls,
    failed_calls,       \* the adapter operations that raised
    \* ---- one call of extract_topics_llm
    num_topics, client_arg,   \* its arguments
    topic_pc, topic_error, topic_client, topic_attempt, topics,
    topic_calls,              \* the content each chat call came back with
    topic_response,           \* `response`: the message content of the last reply
    \* ---- module state of extraction.py and the calls of the two extractors
    topic_model_loaded,       \* _topic_model is not None
    bertopic_cache,           \* _bertopic_cache: (text, count) -> topics
    bertopic_calls,           \* the calls of extract_topics_bertopic, in order
    ner_model_loaded,         \* _ner_model is not None
    entity_cache,             \* _entity_cache: md5(text) -> entities
    entity_calls,             \* the calls of extract_entities, in order
    \* ---- one call of handle_extraction
    settings,                 \* the three switches it reads
    handle_pc, handle_topics, handle_entities, handle_error,
    \* ---- direct calls of the llms.py functions, in order
    config_calls,             \* get_model_config
    constructions,            \* the two constructors
    embedding_calls,          \* create_embedding
    \* ---- one call of config.get_config
    os_environ,               \* os.environ: name -> value, Absent when unset
    files,                    \* the file system: path -> what open() finds
    config_pc, config_data, config_raised,
    config_log,               \* the warnings logged, in order
    \* ---- one provider response turned into a ChatResponse
    chat_cls,                 \* the wrapper class whose method runs
    provider_response,        \* what the provider's API returned
    chat_response             \* the ChatResponse the method returned

client_vars == <<env, model_clients, instances>>
task_vars == <<task_pc, task_arg, task_result, task_first>>
adapter_vars == <<store, store0, long_term>>
extract_vars ==
    <<input, deduplicate, pc, error, client, memories, offset, idx,
      attempt_number, new_discrete_memories, updated_memories,
      long_term_memories, next_ulid>>
call_vars ==
    <<search_calls, chat_calls, delete_calls, update_calls, index_calls,
      failed_calls>>

topic_vars ==
    <<num_topics, client_arg, topic_pc, topic_error, topic_client, topic_attempt,
      topics, topic_calls, topic_response>>

models_vars ==
    <<topic_model_loaded, bertopic_cache, bertopic_calls,
      ner_model_loaded, entity_cache, entity_calls>>
handle_vars == <<settings, handle_pc, handle_topics, handle_entities, handle_error>>

api_vars == <<config_calls, constructions, embedding_calls>>
config_vars ==
    <<os_environ, files, config_pc, config_data, config_raised, config_log>>
chat_vars == <<chat_cls, provider_response, chat_response>>

vars ==
    <<client_vars, task_vars, adapter_vars, extract_vars, call_vars, topic_vars,
      models_vars, handle_vars, api_vars, config_vars, chat_vars>>
not_chat_vars ==
    <<client_vars, task_vars, adapter_vars, extract_vars, call_vars, topic_vars,
      models_vars, handle_vars, api_vars, config_vars>>
not_config_vars ==
    <<client_vars, task_vars, adapter_vars, extract_vars, call_vars, topic_vars,
      models_vars, handle_vars, api_vars, chat_vars>>

\* what the steps of one operation leave alone
not_task_vars ==
    <<adapter_vars, extract_vars, call_vars, topic_vars, models_vars, handle_vars,
      api_vars, config_vars, chat_vars>>
not_extract_vars == <<task_vars, topic_vars, models_vars, handle_vars, api_vars, config_vars, chat_vars>>
not_topic_vars ==
    <<task_vars, adapter_vars, extract_vars, call_vars, models_vars, handle_vars,
      api_vars, config_vars, chat_vars>>
not_handle_vars ==
    <<client_vars, task_vars, adapter_vars, extract_vars, call_vars, api_vars, config_vars, chat_vars>>
not_models_vars ==
    <<client_vars, task_vars, adapter_vars, extract_vars, call_vars, topic_vars,
      handle_vars, api_vars, config_vars, chat_vars>>
not_api_vars ==
    <<model_clients, instances, task_vars, adapter_vars, extract_vars, call_vars,
      topic_vars, models_vars, handle_vars, config_vars, chat_vars>>

Tasks == 1..MaxTasks

\* ------------------------------------------------------- get_model_client
\* A cache that constructs on every call, never reading the stored entry.
get_model_client_uncached(clients, insts, e, provider) ==
    LET pe == ToProviderEnum(provider) IN
    IF pe.raised # None
    THEN [raised |-> pe.raised, clients |-> clients, insts |-> insts, ret |-> 0]
    ELSE LET made == IF pe.value = "openai" THEN OpenAIClientWrapperInit(e)
                     ELSE AnthropicClientWrapperInit(e)
         IN IF made.raised # None
            THEN [raised |-> made.raised, clients |-> clients,
                  insts |-> insts, ret |-> 0]
            ELSE [raised |-> None,
                  clients |-> [clients EXCEPT ![pe.value] = Len(insts) + 1],
                  insts |-> Append(insts, made.obj),
                  ret |-> Len(insts) + 1]

\* A cache that never stores what it constructs.
get_model_client_unstored(clients, insts, e, provider) ==
    LET r == get_model_client_uncached(clients, insts, e, provider) IN
    [raised |-> r.raised, clients |-> clients, insts |-> r.insts, ret |-> r.ret]

\* A cache that keeps an entry for a provider whose construction failed.
get_model_client_poisoned(clients, insts, e, provider) ==
    LET pe == ToProviderEnum(provider) IN
    IF pe.raised # None
    THEN [raised |-> pe.raised, clients |-> clients, insts |-> insts, ret |-> 0]
    ELSE IF clients[pe.value] # 0
         THEN [raised |-> None, clients |-> clients, insts |-> insts,
               ret |-> clients[pe.value]]
         ELSE LET made == IF pe.value = "openai" THEN OpenAIClientWrapperInit(e)
                          ELSE AnthropicClientWrapperInit(e)
              IN IF made.raised # None
                 THEN [raised |-> made.raised,
                       clients |-> [clients EXCEPT ![pe.value] = Len(insts) + 1],
                       insts |-> Append(insts,
                                    [provider |-> pe.value, api_key |-> FALSE,
                                     client |-> FALSE]),
                       ret |-> 0]
                 ELSE [raised |-> None,
                       clients |-> [clients EXCEPT ![pe.value] = Len(insts) + 1],
                       insts |-> Append(insts, made.obj),
                       ret |-> Len(insts) + 1]

\* get_model_client(provider): the whole body runs without an await, so a
\* call is one step.  Result: what it raised, the cache and the heap of
\* constructed clients after the call, the instance returned.
get_model_client(clients, insts, e, provider) ==
    LET pe == ToProviderEnum(provider) IN
    IF pe.raised # None
    THEN [raised |-> pe.raised, clients |-> clients, insts |-> insts, ret |-> 0]
    ELSE IF clients[pe.value] # 0
         THEN [raised |-> None, clients |-> clients, insts |-> insts,
               ret |-> clients[pe.value]]
         ELSE LET made == IF pe.value = "openai" THEN OpenAIClientWrapperInit(e)
                          ELSE AnthropicClientWrapperInit(e)
              IN IF made.raised # None
                 THEN [raised |-> made.raised, clients |-> clients,
                       insts |-> insts, ret |-> 0]
                 ELSE [raised |-> None,
                       clients |-> [clients EXCEPT ![pe.value] = Len(insts) + 1],
                       insts |-> Append(insts, made.obj),
                       ret |-> Len(insts) + 1]

\* A task is created to run get_model_client(provider).
TaskCreate(t, provider) ==
    /\ task_pc[t] = "new"
    /\ task_pc' = [task_pc EXCEPT ![t] = "pending"]
    /\ task_arg' = [task_arg EXCEPT ![t] = provider]
    /\ task_first' = [task_first EXCEPT ![t] =
                         /\ provider.value \in ModelProvider
                         /\ model_clients[provider.value] = 0]
    /\ UNCHANGED <<task_result, client_vars, not_task_vars>>

\* The event loop runs a pending task: the call completes in this step.
TaskRun(t) ==
    /\ task_pc[t] = "pending"
    /\ LET r == get_model_client(model_clients, instances, env, task_arg[t]) IN
        /\ model_clients' = r.clients
        /\ instances' = r.insts
        /\ task_result' = [task_result EXCEPT ![t] = r.ret]
        /\ task_pc' = [task_pc EXCEPT ![t] =
                          IF r.raised = None THEN "returned" ELSE "raised"]
    /\ UNCHANGED <<env, task_arg, task_first, not_task_vars>>

\* The process environment changes (a key is exported or removed).
SetEnv(k) ==
    /\ env' = [env EXCEPT ![k] = ~env[k]]
    /\ UNCHANGED <<model_clients, instances, task_vars, not_task_vars>>


\* ------------------------------------------ direct calls of the functions
ModelNames ==
    DOMAIN MODEL_CONFIGS \cup {"nonexistent-model", "", "GPT-4o", None}

ApiCalls == Len(config_calls) + Len(constructions) + Len(embedding_calls)

GetModelConfig ==
    /\ ApiCalls < MaxApiCalls
    /\ \E model_name \in ModelNames :
         config_calls' = Append(config_calls,
            [model_name |-> model_name, raised |-> None,
             config |-> get_model_config(model_name)])
    /\ UNCHANGED <<env, constructions, embedding_calls, not_api_vars>>

Construct ==
    /\ ApiCalls < MaxApiCalls
    /\ \E api_key \in KeyArgs :
         \/ \E base_url \in BaseArgs :
               constructions' = Append(constructions,
                  [cls |-> "openai", api_key |-> api_key, env |-> env]
                  @@ OpenAIClientWrapperNew(api_key, base_url, env))
         \/ constructions' = Append(constructions,
               [cls |-> "anthropic", api_key |-> api_key, env |-> env]
               @@ AnthropicClientWrapperNew(api_key, env))
    /\ UNCHANGED <<env, config_calls, embedding_calls, not_api_vars>>

\* the client objects there are: those the constructors left
Constructed ==
    {constructions[j].obj :
        j \in {j \in DOMAIN constructions : constructions[j].raised = None}}

QueryLengths == {0, 1, BatchSize, BatchSize + 1}

CreateEmbedding ==
    /\ ApiCalls < MaxApiCalls
    /\ \E obj \in Constructed, len \in QueryLengths, fails \in BOOLEAN :
         embedding_calls' = Append(embedding_calls,
            [obj |-> obj, len |-> len] @@ create_embedding(obj, len, fails))
    /\ UNCHANGED <<env, config_calls, constructions, not_api_vars>>

\* ------------------------------------- create_chat_completion: the result
\* A usage payload: there is none, it is None, a dict or an object; a token
\* field is absent or holds a count.
NoField == [has |-> FALSE, value |-> 0]
Field(n) == [has |-> TRUE, value |-> n]
NoFields ==
    [total_tokens |-> NoField, input_tokens |-> NoField, output_tokens |-> NoField]
Usages ==
    [shape : {"missing", "none"}, fields : {NoFields}]
    \cup [shape : {"dict", "object"},
          fields : [total_tokens : {NoField, Field(8)},
                    input_tokens : {NoField, Field(3)},
                    output_tokens : {NoField, Field(5)}]]

\* a dict payload is read like an object: the key is never found
UsageGet_attr_only(usage, name) ==
    IF usage.shape = "object" /\ usage.fields[name].has
    THEN usage.fields[name].value
    ELSE 0

\* `usage.get(name, 0)` for a dict, `getattr(usage, name, 0)` otherwise
UsageGet(usage, name) ==
    IF usage.shape = "dict"
    THEN IF usage.fields[name].has THEN usage.fields[name].value ELSE 0
    ELSE IF usage.shape = "object" /\ usage.fields[name].has
         THEN usage.fields[name].value
         ELSE 0

\* A content part of an Anthropic message: a text block, or a block of
\* another kind without a `text` attribute.
TextPart(text) == [has_text |-> TRUE, text |-> text]
OtherPart == [has_text |-> FALSE, text |-> ""]
ContentParts == {TextPart("x"), TextPart("y"), OtherPart}

\* Lines 261-271 of AnthropicClientWrapper.create_chat_completion
AnthropicContent(parts) ==
    IF parts # <<>> /\ parts[1].has_text THEN parts[1].text ELSE ""

\* Lines 261-285: the ChatResponse built from an Anthropic message
AnthropicChatResponse(response) ==
    [choices |-> <<[message |-> [content |-> AnthropicContent(response.content)]]>>,
     total_tokens |->
        IF response.usage.shape = "missing" THEN 0
        ELSE UsageGet(response.usage, "input_tokens")
             + UsageGet(response.usage, "output_tokens")]

\* Lines 380-392: the ChatResponse built from an OpenAI completion; the
\* choices are handed on as they came.
OpenAIChatResponse(response) ==
    [choices |-> response.choices,
     total_tokens |->
        IF response.usage.shape = "missing" THEN 0
        ELSE UsageGet(response.usage, "total_tokens")]

NoResponse == [choices |-> <<>>, total_tokens |-> 0]

\* The provider has answered; the method converts and returns.
ChatCompletionReturns ==
    /\ chat_response = NoResponse
    /\ chat_response' = IF chat_cls = "anthropic"
                        THEN AnthropicChatResponse(provider_response)
                        ELSE OpenAIChatResponse(provider_response)
    /\ UNCHANGED <<chat_cls, provider_response, not_chat_vars>>

\* ========================================================= config.py ======
\* The variables of the environment that matter, and the paths
\* REDIS_MEMORY_CONFIG may name.
EnvNames == {"REDIS_MEMORY_CONFIG", "REDIS_MEMORY_PORT", "HOME"}
Paths == {"missing_file.yaml", "conf.yaml", "conf.json", "notes.yaml"}

\* What open() and the parser find at a path: no file, a document that is a
\* mapping, an empty document, a document that is a list, or one that does
\* not parse.
NoMapping == [k \in {} |-> ""]
FileStates ==
    [kind : {"missing", "empty", "list", "unparsable"}, mapping : {NoMapping}]
    \cup [kind : {"mapping"}, mapping : {[k \in {"port"} |-> "1234"]}]

\* `key.startswith("REDIS_MEMORY_")`
HasPrefix(key) == key \in {"REDIS_MEMORY_CONFIG", "REDIS_MEMORY_PORT"}

\* `key[13:].lower()`
ConfigKey(key) == IF key = "REDIS_MEMORY_CONFIG" THEN "config" ELSE "port"

\* Lines 175-179: one entry per set variable that has the prefix.
Overrides(environ) ==
    LET set == {key \in DOMAIN environ : environ[key] # Absent /\ HasPrefix(key)}
    IN [k \in {ConfigKey(key) : key \in set} |->
          environ[CHOOSE key \in set : ConfigKey(key) = k]]

\* Lines 154-173: the mapping loaded from the file and the warning logged.
LoadConfigFile(environ, fs) ==
    LET config_file == environ["REDIS_MEMORY_CONFIG"]
    IN IF config_file \in {Absent, ""}
       THEN [data |-> NoMapping, is_list |-> FALSE, log |-> <<>>]
       ELSE IF fs[config_file].kind = "missing"
       THEN [data |-> NoMapping, is_list |-> FALSE,
             log |-> <<[message |-> "Config file not found",
                        config_file |-> config_file]>>]
       ELSE IF fs[config_file].kind = "unparsable"
       THEN [data |-> NoMapping, is_list |-> FALSE,
             log |-> <<[message |-> "Error loading config file",
                        config_file |-> config_file]>>]
       ELSE [data |-> fs[config_file].mapping,
             is_list |-> fs[config_file].kind = "list", log |-> <<>>]

\* get_config(): the exception it raises or None, the mapping it returns and
\* what it logged. Assigning a key to a document that is a list is a TypeError.
get_config(environ, fs) ==
    LET loaded == LoadConfigFile(environ, fs)
        overrides == Overrides(environ)
    IN IF loaded.is_list /\ DOMAIN overrides # {}
       THEN [raised |-> "TypeError", data |-> NoMapping, log |-> loaded.log]
       ELSE [raised |-> None, data |-> overrides @@ loaded.data, log |-> loaded.log]

GetConfig ==
    /\ config_pc = "idle"
    /\ LET r == get_config(os_environ, files)
       IN /\ config_raised' = r.raised
          /\ config_data' = r.data
          /\ config_log' = r.log
          /\ config_pc' = IF r.raised = None THEN "returned" ELSE "raised"
    /\ UNCHANGED <<os_environ, files, not_config_vars>>

\* ====================================================== extraction.py ======
\* ---- what the chat model may answer ------------------------------------
\* A memory dictionary of the "memories" list; type and text may be missing.
MemSemX == [type |-> "semantic", text |-> "X"]
MemNoTypeY == [type |-> Absent, text |-> "Y"]
MemNoText == [type |-> "episodic", text |-> Absent]

\* The message content of a reply, by what json.loads makes of it:
\*   fmt "text"   : not a JSON document            ("not json", "{bad}")
\*   fmt "array"  : a JSON document, not a mapping ([1])
\*   fmt "object" : a mapping; has_memories, is_list describe its "memories"
Content(fmt, has, islist, mems) ==
    [fmt |-> fmt, has_memories |-> has, is_list |-> islist, memories |-> mems]

MalformedContents ==
    {Content("text", FALSE, FALSE, <<>>),     \* JSONDecodeError
     Content("array", FALSE, FALSE, <<>>),    \* AssertionError: not a dict
     Content("object", FALSE, FALSE, <<>>),   \* KeyError: no "memories"
     Content("object", TRUE, FALSE, <<>>)}    \* AssertionError: not a list

ValidContents ==
    {Content("object", TRUE, TRUE, ms) :
        ms \in {<<>>, <<MemSemX>>, <<MemSemX, MemNoTypeY>>, <<MemNoText>>}}

\* What the provider does with one request: it fails, or it answers.
Replies ==
    {[failed |-> TRUE, content |-> Content("text", FALSE, FALSE, <<>>)]}
    \cup [failed : {FALSE}, content : MalformedContents \cup ValidContents]

\* client.create_chat_completion(...): no completion client, or a provider
\* failure, raises; otherwise the unified response carries the content.
create_chat_completion(obj, reply) ==
    IF ~obj.client THEN [raised |-> "ValueError", content |-> None]
    ELSE IF reply.failed THEN [raised |-> "ProviderError", content |-> None]
    ELSE [raised |-> None, content |-> reply.content]

\* json.loads followed by the two assertions of one attempt: the exception
\* the attempt ends with, or None.
ParseDiscrete(content) ==
    IF content.fmt = "text" THEN "JSONDecodeError"
    ELSE IF content.fmt # "object" THEN "AssertionError"
    ELSE IF ~content.has_memories THEN "KeyError"
    ELSE IF ~content.is_list THEN "AssertionError"
    ELSE None

\* How the log of chat calls files an attempt: it passed, the content was
\* malformed, or the call itself raised.
OutcomeClass(exc) ==
    IF exc = None THEN "ok"
    ELSE IF exc \in {"JSONDecodeError", "AssertionError", "KeyError"} THEN "malformed"
    ELSE "raised"

\* stop_after_attempt(4): one attempt too many
ShouldStop_late(n) == n >= MaxAttempts + 1

\* stop_after_attempt(3): no further attempt after attempt number n
ShouldStop(n) == n >= MaxAttempts

\* ---- the storage adapter (vectorstore adapter, outside this source) ------
Eligible(recs) ==
    SelectSeq(recs, LAMBDA r : r.memory_type = "message"
                               /\ r.discrete_memory_extracted = "f")

\* search_memories(memory_type=message, discrete_memory_extracted=f,
\*                 limit, offset): one page of the matching records
search_memories(recs, limit, off) == Slice(Eligible(recs), off, off + limit)

\* delete_memories(ids)
delete_memories(recs, ids) == SelectSeq(recs, LAMBDA r : r.id \notin ids)

\* update_memories(records): each stored record is replaced by the record of
\* the same id
update_memories(recs, updated) ==
    [i \in DOMAIN recs |->
        IF \E j \in DOMAIN updated : updated[j].id = recs[i].id
        THEN LET j == CHOOSE j \in DOMAIN updated : updated[j].id = recs[i].id
             IN updated[j]
        ELSE recs[i]]


\* ---- extract_discrete_memories ------------------------------------------
\* pc names the awaited call the coroutine is suspended at (or is about to
\* make): "search", "loop" (delete_memories or the chat completion of record
\* idx), "update", "index"; "done", "failed", "cancelled" end the invocation.
Running == pc \in {"search", "loop", "update", "index"}

\* `not memory or not memory.text`, never true
IsEmptyText_never(memory) == FALSE

\* `not memory or not memory.text`
IsEmptyText(memory) == memory.text = ""

\* a copy that keeps the flag of the source record
MarkExtracted_noflip(memory) == memory

\* memory.model_copy(update={"discrete_memory_extracted": "t"})
MarkExtracted(memory) == [memory EXCEPT !.discrete_memory_extracted = "t"]

\* the dictionaries of the reply are lost
FromRecord_dropped(mems, id) == <<>>

\* the dictionaries of the reply are added twice
FromRecord_twice(mems, id) ==
    [i \in 1..(2 * Len(mems)) |->
        LET m == mems[((i - 1) % Len(mems)) + 1]
        IN [type |-> m.type, text |-> m.text, src |-> id]]

\* The dictionaries of one reply, each remembering the record it came from
\* (src is bookkeeping of the model, not a key of the dictionary).
FromRecord(mems, id) ==
    [i \in DOMAIN mems |-> [type |-> mems[i].type, text |-> mems[i].text, src |-> id]]

\* new_memory["type"] taken as it is, without the default of .get
BuildLongTerm_nodefault(new, n) ==
    [i \in DOMAIN new |->
        [id |-> UlidBase + n + i,
         text |-> new[i].text,
         memory_type |-> new[i].type,
         discrete_memory_extracted |-> "t",
         src |-> new[i].src]]

\* The list comprehension building one MemoryRecord per dictionary, with ids
\* str(ulid.ULID()) numbered from n.
BuildLongTerm(new, n) ==
    [i \in DOMAIN new |->
        [id |-> UlidBase + n + i,
         text |-> new[i].text,
         memory_type |-> IF new[i].type = Absent THEN "episodic" ELSE new[i].type,
         discrete_memory_extracted |-> "t",
         src |-> new[i].src]]

\* After update_memories: `if new_discrete_memories:` builds the records
\* (new_memory["text"] raises KeyError on a dictionary without text) and goes
\* on to index_long_term_memories.
Build(new) ==
    IF new = <<>>
    THEN pc' = "done" /\ UNCHANGED <<error, long_term_memories, next_ulid>>
    ELSE IF \E i \in DOMAIN new : new[i].text = Absent
    THEN pc' = "failed" /\ error' = "KeyError"
         /\ UNCHANGED <<long_term_memories, next_ulid>>
    ELSE /\ pc' = "index"
         /\ long_term_memories' = BuildLongTerm(new, next_ulid)
         /\ next_ulid' = next_ulid + Len(new)
         /\ UNCHANGED error

\* update_memories is awaited whether or not a record was collected
EndLoop_always(upd, new) ==
    pc' = "update" /\ UNCHANGED <<error, long_term_memories, next_ulid>>

\* The for loop is over: `if updated_memories:` awaits update_memories.
EndLoop(upd, new) ==
    IF upd # <<>>
    THEN pc' = "update" /\ UNCHANGED <<error, long_term_memories, next_ulid>>
    ELSE Build(new)

\* update_memories is awaited after each record instead of after the loop
Continue_flush_each(i, mems, upd, new) ==
    IF i <= Len(mems) /\ upd = <<>>
    THEN pc' = "loop" /\ UNCHANGED <<error, long_term_memories, next_ulid>>
    ELSE EndLoop(upd, new)

\* The loop moves to record i, or ends.
Continue(i, mems, upd, new) ==
    IF i <= Len(mems)
    THEN pc' = "loop" /\ UNCHANGED <<error, long_term_memories, next_ulid>>
    ELSE EndLoop(upd, new)

\* exhausted retries skip the record and go on to the flush
Raise_commit(exc) ==
    IF exc = "RetryError"
    THEN pc' = "update" /\ UNCHANGED <<error, long_term_memories, next_ulid>>
    ELSE pc' = "failed" /\ error' = exc /\ UNCHANGED <<long_term_memories, next_ulid>>

\* An exception leaves extract_discrete_memories: nothing below the raising
\* statement runs.
Raise(exc) ==
    pc' = "failed" /\ error' = exc /\ UNCHANGED <<long_term_memories, next_ulid>>

\* the exception of an adapter operation is swallowed and the operation run again
AdapterFailed_retried(operation) ==
    /\ failed_calls' = Append(failed_calls, operation)
    /\ UNCHANGED <<pc, error, long_term_memories, next_ulid>>

\* An awaited adapter operation raises: nothing around the await catches it.
AdapterFailed(operation) ==
    /\ failed_calls' = Append(failed_calls, operation)
    /\ Raise("AdapterError")

\* Lines 291-305: resolve the provider, get the client, choose the records.
Start ==
    /\ pc = "idle"
    /\ LET r == get_model_client(model_clients, instances, env,
                    [kind |-> "enum",
                     value |-> get_model_config(generation_model).provider])
       IN /\ model_clients' = r.clients
          /\ instances' = r.insts
          /\ client' = r.ret
          /\ IF r.raised # None
             THEN Raise(r.raised) /\ UNCHANGED memories
             ELSE IF ~input.given \/ input.list = <<>>   \* `if not memories:`
             THEN /\ memories' = <<>>
                  /\ pc' = "search"
                  /\ UNCHANGED <<error, long_term_memories, next_ulid>>
             ELSE /\ memories' = input.list
                  /\ Continue(1, input.list, <<>>, <<>>)
    /\ UNCHANGED <<env, not_extract_vars, adapter_vars, input, deduplicate, offset, idx,
                   attempt_number, new_discrete_memories, updated_memories,
                   call_vars>>

\* the scan stops only at an empty page
PageIsLast_empty(page) == Len(page) = 0

\* `if len(search_result.memories) < 25: break`
PageIsLast(page) == Len(page) < PageSize

\* Lines 307-325: one turn of the `while True` paging loop.
SearchPage ==
    /\ pc = "search"
    /\ search_calls' = Append(search_calls, [limit |-> PageSize, offset |-> offset])
    /\ \E ok \in BOOLEAN :
         IF ~ok
         THEN AdapterFailed("search_memories") /\ UNCHANGED <<memories, offset>>
         ELSE LET page == search_memories(store, PageSize, offset) IN
              /\ UNCHANGED failed_calls
              /\ memories' = memories \o page
              /\ IF PageIsLast(page)
                 THEN Continue(1, memories \o page, <<>>, <<>>) /\ UNCHANGED offset
                 ELSE /\ offset' = offset + PageSize
                      /\ pc' = "search"
                      /\ UNCHANGED <<error, long_term_memories, next_ulid>>
    /\ UNCHANGED <<client_vars, not_extract_vars, adapter_vars, input, deduplicate, client,
                   idx, attempt_number, new_discrete_memories, updated_memories,
                   chat_calls, delete_calls, update_calls, index_calls>>

\* Lines 331-334: a record without text is deleted and skipped.
DeleteEmpty ==
    /\ pc = "loop"
    /\ IsEmptyText(memories[idx])
    /\ delete_calls' = Append(delete_calls, <<memories[idx].id>>)
    /\ \E ok \in BOOLEAN :
         IF ~ok
         THEN AdapterFailed("delete_memories") /\ UNCHANGED <<store, idx>>
         ELSE /\ UNCHANGED failed_calls
              /\ store' = delete_memories(store, {memories[idx].id})
              /\ idx' = idx + 1
              /\ Continue(idx + 1, memories, updated_memories, new_discrete_memories)
    /\ UNCHANGED <<client_vars, not_extract_vars, store0, long_term, input, deduplicate,
                   client, memories, offset, attempt_number, new_discrete_memories,
                   updated_memories, search_calls, chat_calls, update_calls,
                   index_calls>>

\* Lines 336-364: one attempt of the retried block for record idx; a passed
\* attempt runs on, without an await, through lines 360-364.
Attempt ==
    /\ pc = "loop"
    /\ ~IsEmptyText(memories[idx])
    /\ \E reply \in Replies :
         LET response == create_chat_completion(instances[client], reply)
             exc == IF response.raised # None THEN response.raised
                    ELSE ParseDiscrete(response.content)
         IN
         /\ chat_calls' = Append(chat_calls,
                [id |-> memories[idx].id,
                 outcome |-> OutcomeClass(exc),
                 memories |-> IF exc = None THEN response.content.memories
                              ELSE <<>>])
         /\ IF exc = None
            THEN LET new == new_discrete_memories
                            \o FromRecord(response.content.memories, memories[idx].id)
                     upd == Append(updated_memories, MarkExtracted(memories[idx]))
                 IN /\ new_discrete_memories' = new
                    /\ updated_memories' = upd
                    /\ idx' = idx + 1
                    /\ attempt_number' = 1
                    /\ Continue(idx + 1, memories, upd, new)
            ELSE IF ~ShouldStop(attempt_number)
            THEN /\ attempt_number' = attempt_number + 1
                 /\ UNCHANGED <<pc, error, long_term_memories, next_ulid, idx,
                                new_discrete_memories, updated_memories>>
            ELSE /\ Raise("RetryError")
                 /\ UNCHANGED <<idx, attempt_number, new_discrete_memories,
                                updated_memories>>
    /\ UNCHANGED <<client_vars, not_extract_vars, adapter_vars, input, deduplicate, client,
                   memories, offset, search_calls, delete_calls, update_calls,
                   index_calls, failed_calls>>

\* Lines 366-380: the bulk flag update, then the new records are built.
UpdateMemories ==
    /\ pc = "update"
    /\ update_calls' = Append(update_calls, updated_memories)
    /\ \E ok \in BOOLEAN :
         IF ~ok
         THEN AdapterFailed("update_memories") /\ UNCHANGED store
         ELSE /\ UNCHANGED failed_calls
              /\ store' = update_memories(store, updated_memories)
              /\ Build(new_discrete_memories)
    /\ UNCHANGED <<client_vars, not_extract_vars, store0, long_term, input, deduplicate,
                   client, memories, offset, idx, attempt_number,
                   new_discrete_memories, updated_memories, search_calls,
                   chat_calls, delete_calls, index_calls>>

\* Lines 382-385: the new records are handed to index_long_term_memories.
IndexLongTerm ==
    /\ pc = "index"
    /\ index_calls' = Append(index_calls,
                             [records |-> long_term_memories,
                              deduplicate |-> deduplicate])
    /\ \E ok \in BOOLEAN :
         IF ~ok
         THEN AdapterFailed("index_long_term_memories") /\ UNCHANGED long_term
         ELSE /\ UNCHANGED failed_calls
              /\ long_term' = long_term \o long_term_memories
              /\ pc' = "done"
              /\ UNCHANGED <<error, long_term_memories, next_ulid>>
    /\ UNCHANGED <<client_vars, not_extract_vars, store, store0, input, deduplicate,
                   client, memories, offset, idx, attempt_number,
                   new_discrete_memories, updated_memories, search_calls,
                   chat_calls, delete_calls, update_calls>>

\* The enclosing task is terminated while the coroutine is suspended.
Cancel ==
    /\ Running
    /\ pc' = "cancelled"
    /\ UNCHANGED <<client_vars, not_extract_vars, adapter_vars, input, deduplicate, error,
                   client, memories, offset, idx, attempt_number,
                   new_discrete_memories, updated_memories, long_term_memories,
                   next_ulid, call_vars>>

\* ---- extract_topics_llm --------------------------------------------------
TopicLabels == {"a", "b"}

RECURSIVE SeqsUpTo(_, _)
SeqsUpTo(S, n) ==
    IF n = 0 THEN {<<>>}
    ELSE LET shorter == SeqsUpTo(S, n - 1)
         IN shorter \cup {Append(q, x) : q \in {r \in shorter : Len(r) = n - 1}, x \in S}

\* The message content of a reply to the topic prompt:
\*   fmt "text"   : not a JSON document
\*   fmt "array"  : a JSON document that is not a mapping
\*   fmt "object" : a mapping; has_topics says whether it has the key "topics"
TopicContent(fmt, has, labels) == [fmt |-> fmt, has_topics |-> has, topics |-> labels]

TopicReplies ==
    {[failed |-> TRUE, content |-> TopicContent("text", FALSE, <<>>)]}
    \cup [failed : {FALSE},
          content : {TopicContent("text", FALSE, <<>>),
                     TopicContent("array", FALSE, <<>>),
                     TopicContent("object", FALSE, <<>>)}
                    \cup {TopicContent("object", TRUE, q) :
                             q \in SeqsUpTo(TopicLabels, MaxTopics)}]

\* The num_topics argument: None, or a count.
NoCount == [given |-> FALSE, value |-> 0]
Count(n) == [given |-> TRUE, value |-> n]

\* `_num_topics = num_topics if num_topics is not None else settings.top_k_topics`
ResolvedNumTopics(arg) == IF arg.given THEN arg.value ELSE top_k_topics

\* an empty list of topics does not pass the attempt
ParseTopics_nonempty(content, n) ==
    IF content.fmt = "text" THEN [raised |-> None, topics |-> <<>>]
    ELSE IF content.fmt # "object" THEN [raised |-> "TypeError", topics |-> <<>>]
    ELSE IF ~content.has_topics THEN [raised |-> None, topics |-> <<>>]
    ELSE IF content.topics = <<>> THEN [raised |-> "ValueError", topics |-> <<>>]
    ELSE [raised |-> None, topics |-> Slice(content.topics, 0, n)]

\* the truncation of line 166 left out
ParseTopics_untruncated(content, n) ==
    IF content.fmt = "text" THEN [raised |-> None, topics |-> <<>>]
    ELSE IF content.fmt # "object" THEN [raised |-> "TypeError", topics |-> <<>>]
    ELSE IF ~content.has_topics THEN [raised |-> None, topics |-> <<>>]
    ELSE [raised |-> None, topics |-> content.topics]

\* Lines 158-166 on the content of a response: the exception that leaves the
\* attempt (JSONDecodeError and KeyError are caught there, a TypeError from
\* indexing a non-mapping is not), and the value `topics` is left with.
ParseTopics(content, n) ==
    IF content.fmt = "text" THEN [raised |-> None, topics |-> <<>>]
    ELSE IF content.fmt # "object" THEN [raised |-> "TypeError", topics |-> <<>>]
    ELSE IF ~content.has_topics THEN [raised |-> None, topics |-> <<>>]
    ELSE [raised |-> None,
          topics |-> IF content.topics # <<>> THEN Slice(content.topics, 0, n)
                     ELSE content.topics]

\* how the log files the content of a reply
ContentKind(reply) ==
    IF reply.failed THEN "no response"
    ELSE IF reply.content.fmt = "text" THEN "not json"
    ELSE IF reply.content.fmt # "object" THEN "not a mapping"
    ELSE IF ~reply.content.has_topics THEN "no topics field"
    ELSE "topics"

NoError == [exc |-> None, cause |-> None]
NoContent == TopicContent(None, FALSE, <<>>)

\* a client object handed in by the caller
GivenClient(cls) == [provider |-> cls, api_key |-> TRUE, client |-> TRUE]

\* `response.choices[0].message.content`: the choices of an
\* AnthropicClientWrapper are dicts (llms.py 271), which have no attribute
\* `message`.
ReadContent(obj) == IF obj.provider = "anthropic" THEN "AttributeError" ELSE None
NoClient == [provider |-> None, api_key |-> FALSE, client |-> FALSE]

\* Lines 133-149: take the caller's client or the cached one of the topic
\* model's provider.
TopicStart ==
    /\ topic_pc = "idle"
    /\ IF client_arg # None
       THEN /\ topic_client' = GivenClient(client_arg)
            /\ topic_pc' = "attempt"
            /\ UNCHANGED <<topic_error, model_clients, instances>>
       ELSE LET r == get_model_client(model_clients, instances, env,
                        [kind |-> "enum",
                         value |-> get_model_config(topic_model).provider])
            IN /\ model_clients' = r.clients
               /\ instances' = r.insts
               /\ IF r.raised # None
                  THEN /\ topic_pc' = "raised"
                       /\ topic_error' = [exc |-> r.raised, cause |-> None]
                       /\ UNCHANGED topic_client
                  ELSE /\ topic_pc' = "attempt"
                       /\ topic_client' = instances'[r.ret]
                       /\ UNCHANGED topic_error
    /\ topics' = <<>>
    /\ UNCHANGED <<env, num_topics, client_arg, topic_attempt, topic_calls,
                   topic_response, not_topic_vars>>

\* Lines 151-168: one attempt of the retried block; an attempt that no
\* exception leaves ends the loop and the function returns `topics`.
TopicAttempt ==
    /\ topic_pc = "attempt"
    /\ \E reply \in TopicReplies :
         LET response == create_chat_completion(topic_client, reply)
             parsed == IF response.raised # None
                       THEN [raised |-> response.raised, topics |-> topics]
                       ELSE IF ReadContent(topic_client) # None
                       THEN [raised |-> ReadContent(topic_client), topics |-> topics]
                       ELSE ParseTopics(response.content, ResolvedNumTopics(num_topics))
         IN
         /\ topic_calls' = Append(topic_calls,
                                  IF response.raised # None THEN "no response"
                                  ELSE IF ReadContent(topic_client) # None
                                  THEN "not readable"
                                  ELSE ContentKind(reply))
         /\ topic_response' = IF response.raised # None THEN NoContent
                              ELSE response.content
         /\ IF parsed.raised = None
            THEN /\ topics' = parsed.topics
                 /\ topic_pc' = "returned"
                 /\ UNCHANGED <<topic_attempt, topic_error>>
            ELSE IF ~ShouldStop(topic_attempt)
            THEN /\ topic_attempt' = topic_attempt + 1
                 /\ UNCHANGED <<topic_pc, topic_error, topics>>
            ELSE /\ topic_pc' = "raised"
                 /\ topic_error' = [exc |-> "RetryError", cause |-> parsed.raised]
                 /\ UNCHANGED <<topic_attempt, topics>>
    /\ UNCHANGED <<client_vars, num_topics, client_arg, topic_client, not_topic_vars>>

\* The `memories` argument: None, or a list of records.
NoList == [given |-> FALSE, list |-> <<>>]
Given(list) == [given |-> TRUE, list |-> list]

\* ---- extract_topics_bertopic ---------------------------------------------
Texts == {"t1", "t2"}

\* model.get_topic(idx): the (word, score) pairs of a topic, words only; topic
\* 1 has none.
get_topic(topic_idx) == IF topic_idx = 0 THEN <<"a", "b">> ELSE <<>>

\* What the topic model does in one call: loading it fails, transform raises,
\* or transform returns topic indices (-1 is the outlier topic).
BertopicOutcomes ==
    [fail : {"load", "transform"}, topic_indices : {<<>>}]
    \cup [fail : {None},
          topic_indices : {<< -1 >>, <<0>>, <<1>>, <<0, 0>>, <<1, 0>>}]

\* The loop of lines 190-198 from python index i on.
RECURSIVE BertopicLoop(_, _, _)
BertopicLoop(topic_indices, i, n) ==
    IF i >= Len(topic_indices) THEN <<>>
    ELSE IF n # 0 /\ i >= n THEN <<>>
    ELSE LET topic_idx == topic_indices[i + 1]
             topic_info == get_topic(topic_idx)
         IN (IF topic_idx # -1 /\ topic_info # <<>> THEN topic_info ELSE <<>>)
            \o BertopicLoop(topic_indices, i + 1, n)

NotCached == [present |-> FALSE, value |-> <<>>]
Cached(list) == [present |-> TRUE, value |-> list]

BertopicKeys == Texts \X (0..MaxTopics)

\* the lookup of line 183 answers although the key is in the cache
BertopicHit_never(cache, key) == FALSE

\* `cache_key in _bertopic_cache`
BertopicHit(cache, key) == cache[key].present

\* One call: the cache and the loaded flag after it, the exception it raised
\* or None, what it returned, and whether model.transform was invoked.
extract_topics_bertopic(cache, loaded, text, num, outcome) ==
    LET n == ResolvedNumTopics(num)
        cache_key == <<text, n>>
    IN IF BertopicHit(cache, cache_key)
       THEN [cache |-> cache, loaded |-> loaded, raised |-> None,
             ret |-> cache[cache_key].value, transformed |-> FALSE]
       ELSE IF ~loaded /\ outcome.fail = "load"
       THEN [cache |-> cache, loaded |-> FALSE, raised |-> "LoadError",
             ret |-> <<>>, transformed |-> FALSE]
       ELSE IF outcome.fail = "transform"
       THEN [cache |-> cache, loaded |-> TRUE, raised |-> "TransformError",
             ret |-> <<>>, transformed |-> TRUE]
       ELSE LET result == BertopicLoop(outcome.topic_indices, 0, n)
            IN [cache |-> [cache EXCEPT ![cache_key] = Cached(result)],
                loaded |-> TRUE, raised |-> None, ret |-> result,
                transformed |-> TRUE]

ModelCalls == Len(bertopic_calls) + Len(entity_calls)

ExtractTopicsBertopic ==
    /\ ModelCalls < MaxCalls
    /\ \E text \in Texts, num \in {NoCount, Count(1), Count(top_k_topics)},
          outcome \in BertopicOutcomes :
         LET r == extract_topics_bertopic(bertopic_cache, topic_model_loaded,
                                          text, num, outcome)
         IN
         \* a model that is loaded is not loaded again
         /\ outcome.fail = "load" => ~topic_model_loaded
         /\ bertopic_cache' = r.cache
         /\ topic_model_loaded' = r.loaded
         /\ bertopic_calls' = Append(bertopic_calls,
                [text |-> text, n |-> ResolvedNumTopics(num),
                 transformed |-> r.transformed, raised |-> r.raised,
                 ret |-> r.ret])
    /\ UNCHANGED <<ner_model_loaded, entity_cache, entity_calls, not_models_vars>>

\* ---- extract_entities ----------------------------------------------------
\* A string is the sequence of its characters. A token of the NER model is its
\* `word`: cont says that it starts with the marker '##', chars is the word
\* without the marker.
Word(cont, chars) == [cont |-> cont, chars |-> chars]
Trek == Word(FALSE, <<"a">>)
Cont520 == Word(TRUE, <<"b">>)
Trek520 == Word(FALSE, <<"a", "b">>)
ContTrek == Word(TRUE, <<"a">>)
TokenAlphabet == {Trek, Cont520, Trek520, ContTrek}

\* hashlib.md5(text.encode()).hexdigest()
_entity_cache_key(text) == IF text = "t1" THEN "md5-1" ELSE "md5-2"
Digests == {_entity_cache_key(t) : t \in Texts}

\* "".join(pieces)
RECURSIVE Join(_)
Join(pieces) == IF pieces = <<>> THEN <<>> ELSE Head(pieces) \o Join(Tail(pieces))

\* `if current_entity: entities.append("".join(current_entity))`
Flush(current_entity, entities) ==
    IF current_entity # <<>> THEN Append(entities, Join(current_entity))
    ELSE entities

\* The loop of lines 98-113 from token i on, and the flush after it.
RECURSIVE GroupTokens(_, _, _, _)
GroupTokens(results, i, current_entity, entities) ==
    IF i > Len(results) THEN Flush(current_entity, entities)
    ELSE IF results[i].cont
    THEN GroupTokens(results, i + 1, Append(current_entity, results[i].chars), entities)
    ELSE GroupTokens(results, i + 1, <<results[i].chars>>,
                     Flush(current_entity, entities))

\* list(set(entities)): the elements once each, in any order
ListsOfSet(S) == {q \in [1..Cardinality(S) -> S] : Range(q) = S}

\* the failure of the model is not caught
NerFailure_raises(outcome) == IF outcome.fail # None THEN "NerError" ELSE None

\* `except Exception`: nothing leaves the call
NerFailure(outcome) == None

\* One call; deduped is the order list(set(...)) came out with. hit: the
\* cached list was returned; invoked: ner(text) was called.
extract_entities(cache, loaded, text, outcome, deduped) ==
    LET cache_key == _entity_cache_key(text)
        cached == cache[cache_key]
    IN IF cached.present /\ cached.value # <<>>
       THEN [cache |-> cache, loaded |-> loaded, raised |-> None,
             ret |-> cached.value, hit |-> TRUE, invoked |-> FALSE]
       ELSE IF ~loaded /\ outcome.fail = "load"
       THEN [cache |-> cache, loaded |-> FALSE, raised |-> NerFailure(outcome),
             ret |-> <<>>, hit |-> FALSE, invoked |-> FALSE]
       ELSE IF outcome.fail = "inference"
       THEN [cache |-> cache, loaded |-> TRUE, raised |-> NerFailure(outcome),
             ret |-> <<>>, hit |-> FALSE, invoked |-> TRUE]
       ELSE [cache |-> [cache EXCEPT ![cache_key] = Cached(deduped)],
             loaded |-> TRUE, raised |-> None, ret |-> deduped,
             hit |-> FALSE, invoked |-> TRUE]

Entities(results) == Range(GroupTokens(results, 1, <<>>, <<>>))

NerOutcomes(tokens) ==
    [fail : {"load", "inference"}, results : {<<>>}]
    \cup [fail : {None}, results : tokens]

\* what one call does to the module state and the log
EntityUpdate(text, outcome, deduped) ==
    LET r == extract_entities(entity_cache, ner_model_loaded, text, outcome, deduped)
    IN
    /\ outcome.fail = "load" => ~ner_model_loaded
    /\ entity_cache' = r.cache
    /\ ner_model_loaded' = r.loaded
    /\ entity_calls' = Append(entity_calls,
           [text |-> text, hit |-> r.hit, invoked |-> r.invoked,
            fail |-> IF r.hit THEN None ELSE outcome.fail,
            results |-> IF r.hit THEN <<>> ELSE outcome.results,
            raised |-> r.raised, ret |-> r.ret, before |-> entity_cache])

EntityCall(text, outcome, deduped) ==
    /\ EntityUpdate(text, outcome, deduped)
    /\ UNCHANGED <<topic_model_loaded, bertopic_cache, bertopic_calls, not_models_vars>>

\* a call among others, the model finding nothing, one entity or the same twice
ExtractEntities ==
    /\ ModelCalls < MaxCalls
    /\ \E text \in Texts,
          outcome \in NerOutcomes({<<>>, <<Trek, Cont520>>, <<Trek, Trek>>}) :
         \E deduped \in ListsOfSet(Entities(outcome.results)) :
            EntityCall(text, outcome, deduped)

\* one call on any token sequence of up to MaxTokens tokens
ExtractEntitiesOfTokens ==
    /\ entity_calls = <<>>
    /\ \E results \in SeqsUpTo(TokenAlphabet, MaxTokens) :
         \E deduped \in ListsOfSet(Entities(results)) :
            EntityCall("t1", [fail |-> None, results |-> results], deduped)

\* ---- handle_extraction ----------------------------------------------------
HandleText == "t1"

\* the list is handed on as it is
Dedupe_kept(list) == {list}

\* `if xs: xs = list(set(xs))`: the lists that may come out
Dedupe(list) == IF list # <<>> THEN ListsOfSet(Range(list)) ELSE {list}

\* Lines 214-219 up to the first suspension point: nothing when topic
\* extraction is off, the whole BERTopic call, or the call of
\* extract_topics_llm(text) that is then awaited.
HandleTopics ==
    /\ handle_pc = "idle"
    /\ IF ~settings.enable_topic_extraction
       THEN /\ handle_pc' = "entities"
            /\ UNCHANGED <<handle_topics, handle_error, topic_model_loaded,
                           bertopic_cache, bertopic_calls>>
       ELSE IF settings.topic_model_source = "BERTopic"
       THEN \E outcome \in BertopicOutcomes :
               LET r == extract_topics_bertopic(bertopic_cache, topic_model_loaded,
                                                HandleText, NoCount, outcome)
               IN /\ bertopic_cache' = r.cache
                  /\ topic_model_loaded' = r.loaded
                  /\ bertopic_calls' = Append(bertopic_calls,
                         [text |-> HandleText, n |-> ResolvedNumTopics(NoCount),
                          transformed |-> r.transformed, raised |-> r.raised,
                          ret |-> r.ret])
                  /\ handle_topics' = r.ret
                  /\ handle_error' = r.raised
                  /\ handle_pc' = IF r.raised # None THEN "raised" ELSE "entities"
       ELSE /\ handle_pc' = "llm"
            /\ UNCHANGED <<handle_topics, handle_error, topic_model_loaded,
                           bertopic_cache, bertopic_calls>>
    /\ UNCHANGED <<settings, handle_entities, ner_model_loaded, entity_cache,
                   entity_calls, topic_vars, not_handle_vars>>

\* the awaited extract_topics_llm(text) runs
HandleTopicsLLM ==
    /\ handle_pc = "llm"
    /\ TopicStart \/ TopicAttempt

\* Line 219 when the awaited call is over: its list, or its exception.
HandleTopicsLLMDone ==
    /\ handle_pc = "llm"
    /\ topic_pc \in {"returned", "raised"}
    /\ IF topic_pc = "returned"
       THEN /\ handle_topics' = topics
            /\ handle_pc' = "entities"
            /\ UNCHANGED handle_error
       ELSE /\ handle_error' = topic_error.exc
            /\ handle_pc' = "raised"
            /\ UNCHANGED handle_topics
    /\ UNCHANGED <<settings, handle_entities, models_vars, topic_vars, not_handle_vars>>

\* Lines 221-233: the entities when NER is on, both lists deduplicated, return.
HandleEntities ==
    /\ handle_pc = "entities"
    /\ \E deduped_topics \in Dedupe(handle_topics) :
         /\ handle_topics' = deduped_topics
         /\ IF settings.enable_ner
            THEN \E outcome \in NerOutcomes({<<>>, <<Trek, Cont520>>, <<Trek, Trek>>}) :
                    \E deduped \in ListsOfSet(Entities(outcome.results)) :
                       LET r == extract_entities(entity_cache, ner_model_loaded,
                                                 HandleText, outcome, deduped)
                       IN /\ EntityUpdate(HandleText, outcome, deduped)
                          /\ \E entities \in Dedupe(r.ret) : handle_entities' = entities
            ELSE /\ handle_entities' = <<>>
                 /\ UNCHANGED <<ner_model_loaded, entity_cache, entity_calls>>
    /\ handle_pc' = "returned"
    /\ UNCHANGED <<settings, handle_error, topic_model_loaded, bertopic_cache,
                   bertopic_calls, topic_vars, not_handle_vars>>

\* ------------------------------------------------------- initial states
Unset == [k \in EnvKeys |-> FALSE]

InitClientCache ==
    /\ model_clients = [p \in ModelProvider |-> 0]
    /\ instances = <<>>

InitTasks ==
    /\ task_pc = [t \in Tasks |-> "new"]
    /\ task_arg = [t \in Tasks |-> [kind |-> "enum", value |-> "openai"]]
    /\ task_result = [t \in Tasks |-> 0]
    /\ task_first = [t \in Tasks |-> FALSE]

InitExtract ==
    /\ store0 = store
    /\ long_term = <<>>
    /\ pc = "idle"
    /\ error = None
    /\ client = 0
    /\ memories = <<>>
    /\ offset = 0
    /\ idx = 1
    /\ attempt_number = 1
    /\ new_discrete_memories = <<>>
    /\ updated_memories = <<>>
    /\ long_term_memories = <<>>
    /\ next_ulid = 0
    /\ search_calls = <<>>
    /\ chat_calls = <<>>
    /\ delete_calls = <<>>
    /\ update_calls = <<>>
    /\ index_calls = <<>>
    /\ failed_calls = <<>>

InitTopics ==
    /\ topic_pc = "idle"
    /\ topic_error = NoError
    /\ topic_client = NoClient
    /\ topic_attempt = 1
    /\ topics = <<>>
    /\ topic_calls = <<>>
    /\ topic_response = NoContent

InitModels ==
    /\ topic_model_loaded = FALSE
    /\ bertopic_cache = [k \in BertopicKeys |-> NotCached]
    /\ bertopic_calls = <<>>
    /\ ner_model_loaded = FALSE
    /\ entity_cache = [d \in Digests |-> NotCached]
    /\ entity_calls = <<>>

DefaultSettings ==
    [enable_topic_extraction |-> TRUE, topic_model_source |-> "LLM", enable_ner |-> TRUE]

\* no call of handle_extraction is under way
NoHandleCall ==
    /\ settings = DefaultSettings
    /\ handle_pc = "idle"
    /\ handle_topics = <<>>
    /\ handle_entities = <<>>
    /\ handle_error = None

NoApiCalls ==
    /\ config_calls = <<>>
    /\ constructions = <<>>
    /\ embedding_calls = <<>>

IdleConfig ==
    /\ config_pc = "idle"
    /\ config_data = NoMapping
    /\ config_raised = None
    /\ config_log = <<>>

\* no call of get_config is under way
NoConfigCall ==
    /\ os_environ = [k \in EnvNames |-> Absent]
    /\ files = [path \in Paths |-> [kind |-> "missing", mapping |-> NoMapping]]
    /\ IdleConfig

\* no call of create_chat_completion is under way
NoChatCall ==
    /\ chat_cls = "openai"
    /\ provider_response = [content |-> <<>>, choices |-> <<>>,
                            usage |-> [shape |-> "missing", fields |-> NoFields]]
    /\ chat_response = NoResponse

\* no call of extract_topics_llm is under way
NoTopicCall ==
    /\ num_topics = NoCount
    /\ client_arg = None
    /\ InitTopics

\* Stores of n message records with ids 1..n and any text; the first of them
\* may have been processed by an earlier invocation.
Stores(n) ==
    {[i \in 1..n |-> [id |-> i, text |-> text[i], memory_type |-> "message",
                      discrete_memory_extracted |-> IF i = 1 THEN first ELSE "f"]] :
        text \in [1..n -> {"", "hello"}], first \in {"f", "t"}}

\* ---- Spec: one invocation of extract_discrete_memories over a small store
Init ==
    /\ env \in {e \in [EnvKeys -> BOOLEAN] : ~e["ANTHROPIC_API_KEY"]}
    /\ InitClientCache
    /\ InitTasks
    /\ \E n \in 0..MaxRecords : store \in Stores(n)
    /\ input \in {NoList, Given(<<>>), Given(store)}
    /\ deduplicate \in BOOLEAN
    /\ InitExtract
    /\ NoTopicCall
    /\ InitModels
    /\ NoHandleCall
    /\ NoApiCalls
    /\ NoConfigCall
    /\ NoChatCall

Next ==
    \/ Start
    \/ SearchPage
    \/ DeleteEmpty
    \/ Attempt
    \/ UpdateMemories
    \/ IndexLongTerm
    \/ Cancel

Spec == Init /\ [][Next]_vars

\* ---- SpecClient: tasks calling get_model_client while the environment changes
InitClient ==
    /\ env \in [EnvKeys -> BOOLEAN]
    /\ InitClientCache
    /\ InitTasks
    /\ store = <<>>
    /\ input = NoList
    /\ deduplicate = TRUE
    /\ InitExtract
    /\ NoTopicCall
    /\ InitModels
    /\ NoHandleCall
    /\ NoApiCalls
    /\ NoConfigCall
    /\ NoChatCall

NextClient ==
    \/ \E t \in Tasks, p \in ProviderArgs : TaskCreate(t, p)
    \/ \E t \in Tasks : TaskRun(t)
    \/ \E k \in EnvKeys : SetEnv(k)

SpecClient == InitClient /\ [][NextClient]_vars


\* ---- SpecTopics: one call of extract_topics_llm
InitTopicCall ==
    /\ env \in {e \in [EnvKeys -> BOOLEAN] : ~e["ANTHROPIC_API_KEY"]}
    /\ InitClientCache
    /\ InitTasks
    /\ store = <<>>
    /\ input = NoList
    /\ deduplicate = TRUE
    /\ InitExtract
    /\ num_topics \in {NoCount} \cup {Count(n) : n \in 0..MaxTopics}
    /\ client_arg \in {None} \cup ModelProvider
    /\ InitTopics
    /\ InitModels
    /\ NoHandleCall
    /\ NoApiCalls
    /\ NoConfigCall
    /\ NoChatCall

NextTopics ==
    \/ TopicStart
    \/ TopicAttempt

SpecTopics == InitTopicCall /\ [][NextTopics]_vars

\* ---- SpecModels: calls of the two cached extractors, in any order
InitModelCalls ==
    /\ env = Unset
    /\ InitClientCache
    /\ InitTasks
    /\ store = <<>>
    /\ input = NoList
    /\ deduplicate = TRUE
    /\ InitExtract
    /\ NoTopicCall
    /\ InitModels
    /\ NoHandleCall
    /\ NoApiCalls
    /\ NoConfigCall
    /\ NoChatCall

NextModels ==
    \/ ExtractTopicsBertopic
    \/ ExtractEntities

SpecModels == InitModelCalls /\ [][NextModels]_vars

\* ---- SpecTokens: extract_entities on every short token sequence
NextTokens == ExtractEntitiesOfTokens

SpecTokens == InitModelCalls /\ [][NextTokens]_vars

\* ---- SpecHandle: one call of handle_extraction under any settings
InitHandle ==
    /\ env \in {e \in [EnvKeys -> BOOLEAN] : ~e["ANTHROPIC_API_KEY"]}
    /\ InitClientCache
    /\ InitTasks
    /\ store = <<>>
    /\ input = NoList
    /\ deduplicate = TRUE
    /\ InitExtract
    /\ NoTopicCall
    /\ InitModels
    /\ settings \in [enable_topic_extraction : BOOLEAN,
                      topic_model_source : {"BERTopic", "LLM"},
                      enable_ner : BOOLEAN]
    /\ handle_pc = "idle"
    /\ handle_topics = <<>>
    /\ handle_entities = <<>>
    /\ handle_error = None
    /\ NoApiCalls
    /\ NoConfigCall
    /\ NoChatCall

NextHandle ==
    \/ HandleTopics
    \/ HandleTopicsLLM
    \/ HandleTopicsLLMDone
    \/ HandleEntities

SpecHandle == InitHandle /\ [][NextHandle]_vars

\* ---- SpecLlms: direct calls of the llms.py functions while the environment
\* changes
InitLlms ==
    /\ env = Unset
    /\ InitClientCache
    /\ InitTasks
    /\ store = <<>>
    /\ input = NoList
    /\ deduplicate = TRUE
    /\ InitExtract
    /\ NoTopicCall
    /\ InitModels
    /\ NoHandleCall
    /\ NoApiCalls
    /\ NoConfigCall
    /\ NoChatCall

NextLlms ==
    \/ GetModelConfig
    \/ Construct
    \/ CreateEmbedding
    \/ \E k \in EnvKeys : SetEnv(k)

SpecLlms == InitLlms /\ [][NextLlms]_vars

\* ---- SpecConfig: get_config under any environment and any state of the
\* files it may be pointed at
InitConfig ==
    /\ env = Unset
    /\ InitClientCache
    /\ InitTasks
    /\ store = <<>>
    /\ input = NoList
    /\ deduplicate = TRUE
    /\ InitExtract
    /\ NoTopicCall
    /\ InitModels
    /\ NoHandleCall
    /\ NoApiCalls
    /\ os_environ \in [EnvNames -> {Absent, "", "6379"} \cup Paths]
    /\ os_environ["REDIS_MEMORY_PORT"] \in {Absent, "6379"}
    /\ os_environ["REDIS_MEMORY_CONFIG"] \in {Absent, ""} \cup Paths
    /\ os_environ["HOME"] = "notes.yaml"
    /\ files \in [Paths -> FileStates]
    /\ files["missing_file.yaml"].kind = "missing"
    /\ files["notes.yaml"].kind = "list"
    /\ files["conf.json"].kind \in {"missing", "mapping"}
    /\ IdleConfig
    /\ NoChatCall

NextConfig == GetConfig

SpecConfig == InitConfig /\ [][NextConfig]_vars

\* ---- SpecChat: create_chat_completion of either class on any provider
\* response
InitChat ==
    /\ env = Unset
    /\ InitClientCache
    /\ InitTasks
    /\ store = <<>>
    /\ input = NoList
    /\ deduplicate = TRUE
    /\ InitExtract
    /\ NoTopicCall
    /\ InitModels
    /\ NoHandleCall
    /\ NoApiCalls
    /\ NoConfigCall
    /\ chat_cls \in ModelProvider
    /\ provider_response \in
          [content : IF chat_cls = "anthropic"
                     THEN SeqsUpTo(ContentParts, MaxParts) ELSE {<<>>},
           choices : IF chat_cls = "openai"
                     THEN {<<[message |-> [content |-> "x"]]>>} ELSE {<<>>},
           usage : Usages]
    /\ chat_response = NoResponse

NextChat == ChatCompletionReturns

SpecChat == InitChat /\ [][NextChat]_vars

\* ---- SpecSelect: the select phase over a store of up to MaxScan eligible
\* records, with two records the filter must leave out (one already flagged,
\* one that is not a message).
ScanStore(n, extra) ==
    LET eligible == [i \in 1..n |-> [id |-> i, text |-> "hello",
                                     memory_type |-> "message",
                                     discrete_memory_extracted |-> "f"]]
        flagged == [id |-> n + 1, text |-> "hello", memory_type |-> "message",
                    discrete_memory_extracted |-> "t"]
        other == [id |-> n + 2, text |-> "hello", memory_type |-> "semantic",
                  discrete_memory_extracted |-> "f"]
    IN IF extra THEN <<flagged>> \o eligible \o <<other>> ELSE eligible

InitSelect ==
    /\ env \in {e \in [EnvKeys -> BOOLEAN] :
                  e["OPENAI_API_KEY"] /\ ~e["ANTHROPIC_API_KEY"]}
    /\ InitClientCache
    /\ InitTasks
    /\ \E n \in 0..MaxScan, extra \in BOOLEAN : store = ScanStore(n, extra)
    /\ input \in {NoList, Given(<<>>)}
    /\ deduplicate = TRUE
    /\ InitExtract
    /\ NoTopicCall
    /\ InitModels
    /\ NoHandleCall
    /\ NoApiCalls
    /\ NoConfigCall
    /\ NoChatCall

NextSelect ==
    \/ Start
    \/ SearchPage
    \/ Cancel

SpecSelect == InitSelect /\ [][NextSelect]_vars

\* ======================================================= properties ======
\* ---- vocabulary
Ended == pc \in {"done", "failed", "cancelled"}
LoopOver == idx = Len(memories) + 1

\* the chat calls made for record id, and how each ended
CallsFor(id) == SelectSeq(chat_calls, LAMBDA c : c.id = id)
OutcomesFor(id) == [i \in DOMAIN CallsFor(id) |-> CallsFor(id)[i].outcome]

\* what has been accumulated from record id
SynthesizedFrom(id) == SelectSeq(new_discrete_memories, LAMBDA m : m.src = id)

\* the records built from record id in a list handed to the index
BuiltFrom(recs, id) == SelectSeq(recs, LAMBDA r : r.src = id)

\* the type and text of the records of a list, in order
Facts(recs) ==
    [i \in DOMAIN recs |->
        [type |-> IF "memory_type" \in DOMAIN recs[i] THEN recs[i].memory_type
                  ELSE IF recs[i].type = Absent THEN "episodic" ELSE recs[i].type,
         text |-> recs[i].text]]

SelectedIds == {memories[i].id : i \in DOMAIN memories}
Flag(recs, id) ==
    IF \E i \in DOMAIN recs : recs[i].id = id
    THEN (CHOOSE r \in Range(recs) : r.id = id).discrete_memory_extracted
    ELSE None

\* every dictionary synthesized from record id is in a list that was handed
\* to index_long_term_memories
HandedToIndex(id) ==
    \/ SynthesizedFrom(id) = <<>>
    \/ \E c \in DOMAIN index_calls :
          Facts(BuiltFrom(index_calls[c].records, id)) = Facts(SynthesizedFrom(id))

\* C1: at-least-once.  Wherever the invocation fails or is terminated, a
\* record that it has flagged 't' in storage has had its synthesized memories
\* handed to index_long_term_memories; a record whose memories were not
\* handed over is still 'f'.
C1_FlaggedOnlyWhenIndexed ==
    pc \in {"failed", "cancelled"} =>
        \A id \in SelectedIds :
            (Flag(store0, id) = "f" /\ Flag(store, id) = "t") => HandedToIndex(id)

\* C2: a record whose every attempt fails gets at most 3 chat calls; the
\* invocation then fails, and the record is never collected for, nor passed
\* to, update_memories.
C2_ExhaustedRetries ==
    /\ pc = "loop" =>
          /\ attempt_number \in 1..3
          /\ memories[idx].text # "" =>
                LET outs == OutcomesFor(memories[idx].id) IN
                /\ Len(outs) = attempt_number - 1
                /\ "ok" \notin Range(outs)
    /\ \A id \in SelectedIds :
          LET outs == OutcomesFor(id) IN
          /\ Len(outs) <= 3
          /\ (Len(outs) = 3 /\ "ok" \notin Range(outs)) =>
                /\ pc = "failed" /\ error = "RetryError"
                /\ memories[idx].id = id
                /\ update_calls = <<>>
                /\ \A j \in DOMAIN updated_memories : updated_memories[j].id # id
                /\ Flag(store, id) = Flag(store0, id)

\* three malformed answers for one record, after which the invocation failed
C2_Witness ==
    /\ pc = "failed" /\ error = "RetryError"
    /\ OutcomesFor(memories[idx].id) = <<"malformed", "malformed", "malformed">>
    /\ Flag(store, memories[idx].id) = "f"

\* C3: a record whose first one or two attempts failed and whose next attempt
\* returned a valid envelope is processed as if the first attempt had passed:
\* no further chat call is made for it, its memories are accumulated, its copy
\* flagged 't' is collected, the retry never fails the invocation, and a
\* completed invocation has passed that copy to update_memories and the
\* records built from its memories to index_long_term_memories.
PassedAfterRetry(calls) ==
    /\ Len(calls) \in {2, 3}
    /\ calls[Len(calls)].outcome = "ok"

C3_RetrySucceeds ==
    \A id \in SelectedIds :
        LET calls == CallsFor(id) IN
        PassedAfterRetry(calls) =>
            LET last == calls[Len(calls)] IN
            /\ \A k \in 1..(Len(calls) - 1) : calls[k].outcome # "ok"
            /\ Facts(SynthesizedFrom(id)) = Facts(last.memories)
            /\ \E j \in DOMAIN updated_memories :
                  /\ updated_memories[j].id = id
                  /\ updated_memories[j].discrete_memory_extracted = "t"
            /\ ~(error = "RetryError" /\ memories[idx].id = id)
            /\ pc = "done" =>
                  /\ Len(update_calls) = 1
                  /\ \E j \in DOMAIN update_calls[1] :
                        /\ update_calls[1][j].id = id
                        /\ update_calls[1][j].discrete_memory_extracted = "t"
                  /\ last.memories # <<>> =>
                        /\ Len(index_calls) = 1
                        /\ Facts(BuiltFrom(index_calls[1].records, id))
                              = Facts(last.memories)

\* "not json", "{bad}", then one semantic memory X: indexed and flagged
C3_Witness ==
    /\ pc = "done"
    /\ Len(index_calls) = 1
    /\ \E id \in SelectedIds :
          /\ OutcomesFor(id) = <<"malformed", "malformed", "ok">>
          /\ Facts(BuiltFrom(index_calls[1].records, id))
                = <<[type |-> "semantic", text |-> "X"]>>
          /\ Flag(store0, id) = "f" /\ Flag(store, id) = "t"


\* the ids of a list of records, in order
Ids(recs) == [i \in DOMAIN recs |-> recs[i].id]
WithText(recs) == SelectSeq(recs, LAMBDA r : r.text # "")

\* C4: accumulate-then-flush.  update_memories and index_long_term_memories
\* are each called at most once, only after the loop has gone through every
\* selected record, and no chat call follows either of them; the one
\* update_memories call carries every collected source record and the one
\* index call a record for every accumulated dictionary.
C4_FlushState ==
    /\ Len(update_calls) <= 1
    /\ Len(index_calls) <= 1
    /\ (update_calls # <<>> \/ index_calls # <<>>) =>
          /\ LoopOver
          /\ pc \notin {"search", "loop"}
    /\ update_calls # <<>> =>
          /\ update_calls[1] = updated_memories
          /\ Ids(update_calls[1]) = Ids(WithText(memories))
    /\ index_calls # <<>> =>
          Facts(index_calls[1].records) = Facts(new_discrete_memories)

C4_FlushStep ==
    (update_calls # <<>> \/ index_calls # <<>>) => chat_calls' = chat_calls

C4_AccumulateThenFlush == [](C4_FlushState) /\ [][C4_FlushStep]_vars

\* two records processed, then one update call and one index call
C4_Witness ==
    /\ pc = "done"
    /\ Len(update_calls) = 1 /\ Len(update_calls[1]) = 2
    /\ Len(index_calls) = 1 /\ Len(index_calls[1].records) >= 2
    /\ \A id \in SelectedIds : SynthesizedFrom(id) # <<>>

\* C5: a selected record with empty text is deleted by id; no chat call is
\* made for it, nothing is synthesized from it and it is not collected for,
\* nor passed to, update_memories.
C5_EmptyTextDeleted ==
    /\ \A i \in DOMAIN memories :
          memories[i].text = "" =>
              /\ CallsFor(memories[i].id) = <<>>
              /\ SynthesizedFrom(memories[i].id) = <<>>
              /\ memories[i].id \notin Range(Ids(updated_memories))
              /\ \A c \in DOMAIN update_calls :
                    memories[i].id \notin Range(Ids(update_calls[c]))
              /\ i < idx => <<memories[i].id>> \in Range(delete_calls)
              /\ i < idx => Flag(store, memories[i].id) = None
    /\ \A d \in DOMAIN delete_calls :
          \E i \in DOMAIN memories :
              memories[i].text = "" /\ delete_calls[d] = <<memories[i].id>>

\* an empty record deleted beside a record that was processed
C5_Witness ==
    /\ pc = "done"
    /\ delete_calls # <<>>
    /\ chat_calls # <<>>
    /\ Len(update_calls) = 1 /\ Len(update_calls[1]) = 1
    /\ Len(store) < Len(store0)

\* C9: the extraction flag only moves from 'f' to 't'.  Every record that is
\* collected for or passed to update_memories or index_long_term_memories
\* carries 't', and no step turns a stored 't' into anything else.
AllExtracted(recs) == \A i \in DOMAIN recs : recs[i].discrete_memory_extracted = "t"

C9_WritesOnlyT ==
    /\ AllExtracted(updated_memories)
    /\ AllExtracted(long_term_memories)
    /\ AllExtracted(long_term)
    /\ \A c \in DOMAIN update_calls : AllExtracted(update_calls[c])
    /\ \A c \in DOMAIN index_calls : AllExtracted(index_calls[c].records)

C9_NoReversal ==
    \A i \in DOMAIN store :
        store[i].discrete_memory_extracted = "t" =>
            \A j \in DOMAIN store' :
                store'[j].id = store[i].id =>
                    store'[j].discrete_memory_extracted = "t"

C9_FlagMonotonic == [](C9_WritesOnlyT) /\ [][C9_NoReversal]_vars

\* a stored record went from 'f' to 't' and new records were indexed
C9_Witness ==
    /\ pc = "done"
    /\ index_calls # <<>>
    /\ \E id \in SelectedIds : Flag(store0, id) = "f" /\ Flag(store, id) = "t"


\* C6: the select phase over N eligible records makes N \div 25 + 1
\* search_memories calls, with limit 25 and offsets 0, 25, 50, ..., stops at
\* the first page shorter than 25, and has then accumulated each eligible
\* record exactly once.
C6_PagedScan ==
    LET N == Len(Eligible(store))
        made == Len(search_calls)
    IN /\ \A k \in DOMAIN search_calls :
             search_calls[k] = [limit |-> 25, offset |-> 25 * (k - 1)]
       /\ pc = "search" =>
             /\ made <= N \div 25
             /\ offset = 25 * made
             /\ memories = SubSeq(Eligible(store), 1, 25 * made)
       /\ pc \in {"loop", "done"} =>
             /\ made = N \div 25 + 1
             /\ memories = Eligible(store)
             /\ \A r \in Range(Eligible(store)) : SeqCount(Ids(memories), r.id) = 1

\* 30 eligible records: two calls, returning 25 and 5
C6_Witness ==
    /\ pc = "loop"
    /\ Len(Eligible(store)) = 30
    /\ Len(store) = 32
    /\ search_calls = <<[limit |-> 25, offset |-> 0], [limit |-> 25, offset |-> 25]>>
    /\ Len(memories) = 30


\* the clients constructed for provider p, and the tasks that were handed one
ConstructedFor(p) == {i \in DOMAIN instances : instances[i].provider = p}
ReturnedFor(p) == {t \in Tasks : task_pc[t] = "returned" /\ task_arg[t].value = p}

\* C7: after any sequence of get_model_client calls, at most one client has
\* been constructed per provider and every call for that provider returned
\* that instance, whether the provider was given as enum member or as string.
C7_OneInstancePerProvider ==
    \A p \in ModelProvider :
        /\ Cardinality(ConstructedFor(p)) <= 1
        /\ \A t \in ReturnedFor(p) :
              /\ task_result[t] \in ConstructedFor(p)
              /\ task_result[t] = model_clients[p]
        /\ \A t, u \in ReturnedFor(p) : task_result[t] = task_result[u]

\* a call with the string and a call with the enum member got one instance
C7_Witness ==
    \E t, u \in Tasks :
        /\ task_pc[t] = "returned" /\ task_pc[u] = "returned"
        /\ task_arg[t] = [kind |-> "enum", value |-> "anthropic"]
        /\ task_arg[u] = [kind |-> "str", value |-> "anthropic"]
        /\ task_result[t] = task_result[u]
        /\ task_result[t] # 0

\* C8: when several tasks call get_model_client for one provider while the
\* cache has no entry for it, then in whatever order they run exactly one
\* client is constructed and each task that is handed a client is handed
\* that one.
C8_ConcurrentFirstUse ==
    \A p \in ModelProvider :
        LET racers == {t \in ReturnedFor(p) : task_first[t]} IN
        racers # {} =>
            \E i \in DOMAIN instances :
                /\ ConstructedFor(p) = {i}
                /\ \A t \in racers : task_result[t] = i

\* two tasks created against an empty cache have both been handed the client
C8_Witness ==
    \E t, u \in Tasks :
        /\ t # u
        /\ task_first[t] /\ task_first[u]
        /\ task_arg[t].value = "openai" /\ task_arg[u].value = "openai"
        /\ task_pc[t] = "returned" /\ task_pc[u] = "returned"
        /\ task_result[t] = task_result[u]
        /\ Cardinality(ConstructedFor("openai")) = 1


\* C10: in extract_topics_llm a reply whose content is not valid JSON, or is
\* JSON without the "topics" field, is a failed attempt followed by another
\* chat call while fewer than 3 have been made: the call can end on such a
\* reply only at its third attempt.
C10_MalformedTopicsRetried ==
    (topic_pc \in {"returned", "raised"} /\ topic_calls # <<>>
        /\ topic_calls[Len(topic_calls)] \in {"not json", "no topics field"})
    => Len(topic_calls) = 3


\* the chat calls of the extract_topics_llm call that were failed attempts by
\* the spec's list: no response, malformed JSON, or no "topics" field
FailedReply(kind) == kind \in {"no response", "not json", "no topics field"}

\* C11: when all 3 attempts of extract_topics_llm fail (no response, malformed
\* JSON or missing "topics" field), the call raises instead of returning an
\* empty list, and the exception the caller sees is the exception of the
\* final attempt.
C11_FinalExceptionPropagates ==
    (/\ topic_pc \in {"returned", "raised"}
     /\ Len(topic_calls) = 3
     /\ \A k \in 1..3 : FailedReply(topic_calls[k]))
    => /\ topic_pc = "raised"
       /\ topic_error.exc = topic_error.cause

\* C12: a call of extract_topics_llm that returns on a reply listing m topics,
\* with n the requested count (top_k_topics when none was given), returns the
\* first min(m, n) topics of the reply in the reply's order, never more than n.
C12_FirstNTopics ==
    (topic_pc = "returned" /\ topic_calls[Len(topic_calls)] = "topics")
    => LET n == ResolvedNumTopics(num_topics)
           listed == topic_response.topics
       IN /\ topics = SubSeq(listed, 1, Min(Len(listed), n))
          /\ Len(topics) <= n

\* a reply listing more topics than were asked for was cut to the first n,
\* once for an explicit count and once for the configured default
C12_Witness ==
    /\ topic_pc = "returned"
    /\ num_topics = Count(2)
    /\ topic_response = TopicContent("object", TRUE, <<"b", "a", "b">>)
    /\ topics = <<"b", "a">>


\* ---- the calls of extract_topics_bertopic
BertopicKey(call) == <<call.text, call.n>>
CalledKeys == {BertopicKey(bertopic_calls[j]) : j \in DOMAIN bertopic_calls}
TransformsFor(key) ==
    {j \in DOMAIN bertopic_calls :
        BertopicKey(bertopic_calls[j]) = key /\ bertopic_calls[j].transformed}
\* the calls before call j, with its key, that returned
ReturnedBefore(j) ==
    {i \in 1..(j - 1) :
        /\ BertopicKey(bertopic_calls[i]) = BertopicKey(bertopic_calls[j])
        /\ bertopic_calls[i].raised = None}

\* C13 as stated: over any sequence of extract_topics_bertopic calls,
\* transform has been invoked exactly once for every (text, count) key that
\* was called.
C13_OncePerKey ==
    \A key \in CalledKeys : Cardinality(TransformsFor(key)) = 1

\* C13 amended: once a call with a (text, count) key has returned, every later
\* call with that key returns the same result without invoking transform,
\* also when the result is empty; a call whose key has not yet returned,
\* among them one with the same text and another count, goes to the model;
\* so at most one transform per key completes.
C13_OncePerReturnedKey ==
    /\ \A j \in DOMAIN bertopic_calls :
          LET call == bertopic_calls[j] IN
          IF ReturnedBefore(j) # {}
          THEN /\ ~call.transformed
               /\ call.raised = None
               /\ \A i \in ReturnedBefore(j) : call.ret = bertopic_calls[i].ret
          ELSE call.transformed \/ call.raised = "LoadError"
    /\ \A key \in CalledKeys :
          Cardinality({j \in TransformsFor(key) : bertopic_calls[j].raised = None}) <= 1

\* an empty result was answered from the cache; the same text was asked with
\* another count and went to the model
C13_Witness ==
    /\ Len(bertopic_calls) = 3
    /\ bertopic_calls[1].transformed
    /\ bertopic_calls[1].ret = <<>>
    /\ bertopic_calls[1].raised = None
    /\ BertopicKey(bertopic_calls[2]) = BertopicKey(bertopic_calls[1])
    /\ ~bertopic_calls[2].transformed
    /\ bertopic_calls[2].ret = <<>>
    /\ bertopic_calls[3].text = bertopic_calls[1].text
    /\ bertopic_calls[3].n # bertopic_calls[1].n
    /\ bertopic_calls[3].transformed


\* ---- the calls of extract_entities
\* the calls before call j, for its text, that completed without failure
CompletedBefore(j) ==
    {i \in 1..(j - 1) :
        /\ entity_calls[i].text = entity_calls[j].text
        /\ entity_calls[i].fail = None
        /\ entity_calls[i].raised = None}

\* C14: once a call extract_entities(text) has completed without failure, be
\* it with an empty result, a later call with the same text returns the same
\* result and does not invoke the NER model.
C14_EntityCacheHit ==
    \A j \in DOMAIN entity_calls :
        \A i \in CompletedBefore(j) :
            /\ entity_calls[j].hit
            /\ ~entity_calls[j].invoked
            /\ entity_calls[j].ret = entity_calls[i].ret


\* the cache a call left behind
CacheAfter(j) ==
    IF j = Len(entity_calls) THEN entity_cache ELSE entity_calls[j + 1].before
\* the first call after call j for the same text, if there is one
NextFor(j) ==
    {k \in (j + 1)..Len(entity_calls) :
        /\ entity_calls[k].text = entity_calls[j].text
        /\ \A m \in (j + 1)..(k - 1) : entity_calls[m].text # entity_calls[j].text}

\* C15: a call of extract_entities in which loading the model or inference
\* fails raises nothing and returns the empty list, leaves the entity cache
\* as it was, and the next call for the same text goes to the model again.
C15_FailureDegrades ==
    \A j \in DOMAIN entity_calls :
        entity_calls[j].fail # None =>
            /\ entity_calls[j].raised = None
            /\ entity_calls[j].ret = <<>>
            /\ CacheAfter(j) = entity_calls[j].before
            /\ \A k \in NextFor(j) : ~entity_calls[k].hit

\* inference failed for a text, and the next call for it invoked the model
\* and returned what it found
C15_Witness ==
    /\ Len(entity_calls) >= 2
    /\ entity_calls[1].fail = "inference"
    /\ entity_calls[1].ret = <<>>
    /\ entity_calls[2].text = entity_calls[1].text
    /\ entity_calls[2].invoked
    /\ entity_calls[2].ret = << <<"a", "b">> >>

\* ---- token runs, stated apart from the loop
\* the last token of the run that starts at token i
RunEnd(results, i) ==
    CHOOSE k \in i..Len(results) :
        /\ \A m \in (i + 1)..k : results[m].cont
        /\ k = Len(results) \/ ~results[k + 1].cont
RunString(results, i) ==
    Join([m \in 1..(RunEnd(results, i) - i + 1) |-> results[i + m - 1].chars])
\* one string per non-continuation token: it and the continuation tokens
\* that follow it
RunStrings(results) ==
    {RunString(results, i) : i \in {i \in DOMAIN results : ~results[i].cont}}

NoDuplicates(list) == \A a, b \in DOMAIN list : list[a] = list[b] => a = b

\* C16: for any token sequence of the NER model, extract_entities returns one
\* string per maximal run of a non-continuation token and the continuation
\* tokens after it, the marker removed, and each such string exactly once.
C16_GroupedRuns ==
    \A j \in DOMAIN entity_calls :
        (entity_calls[j].invoked /\ entity_calls[j].fail = None) =>
            /\ Range(entity_calls[j].ret) = RunStrings(entity_calls[j].results)
            /\ NoDuplicates(entity_calls[j].ret)


\* C17: handle_extraction returns a topic list and an entity list without a
\* duplicate element, whichever strategy produced the topics; with topic
\* extraction (resp. NER) switched off the list is empty and the extractor is
\* never invoked.
C17_DedupedOutputs ==
    /\ handle_pc = "returned" =>
          /\ NoDuplicates(handle_topics)
          /\ NoDuplicates(handle_entities)
    /\ ~settings.enable_topic_extraction =>
          /\ handle_topics = <<>>
          /\ bertopic_calls = <<>>
          /\ topic_pc = "idle" /\ topic_calls = <<>>
    /\ ~settings.enable_ner =>
          /\ handle_entities = <<>>
          /\ entity_calls = <<>>

\* the LLM listed a topic twice and handle_extraction returned it once
C17_Witness ==
    /\ handle_pc = "returned"
    /\ settings.topic_model_source = "LLM"
    /\ topics = <<"a", "b", "a">>
    /\ Len(handle_topics) = 2
    /\ handle_entities # <<>>


\* C18: get_model_config never raises; for a name of MODEL_CONFIGS it returns
\* that entry (gpt-4o: openai, 128000; claude-3-sonnet-20240229: anthropic,
\* 200000), for every other name the gpt-4o-mini entry (openai, 128000).
C18_ConfigTotal ==
    \A j \in DOMAIN config_calls :
        LET call == config_calls[j] IN
        /\ call.raised = None
        /\ call.model_name \in OpenAIModels \cup AnthropicModels =>
              call.config = MODEL_CONFIGS[call.model_name]
        /\ call.model_name = "gpt-4o" =>
              call.config = [provider |-> "openai", max_tokens |-> 128000]
        /\ call.model_name = "claude-3-sonnet-20240229" =>
              call.config = [provider |-> "anthropic", max_tokens |-> 200000]
        /\ call.model_name \notin OpenAIModels \cup AnthropicModels =>
              /\ call.config = MODEL_CONFIGS["gpt-4o-mini"]
              /\ call.config = [provider |-> "openai", max_tokens |-> 128000]

\* a name of the table and a name outside of it were looked up
C18_Witness ==
    /\ Len(config_calls) = 2
    /\ config_calls[1].model_name = "claude-3-sonnet-20240229"
    /\ config_calls[1].config.provider = "anthropic"
    /\ config_calls[2].model_name = "nonexistent-model"
    /\ config_calls[2].config.provider = "openai"

\* C19: constructing either client with no api_key argument and no key in the
\* environment raises the configuration error at construction; every object
\* a constructor leaves holds a key, so no call is ever made on a client
\* without one.
C19_KeyRequiredAtConstruction ==
    /\ \A j \in DOMAIN constructions :
          LET c == constructions[j]
              env_key == IF c.cls = "openai" THEN "OPENAI_API_KEY"
                         ELSE "ANTHROPIC_API_KEY"
          IN /\ (~Truthy(c.api_key) /\ ~c.env[env_key]) =>
                    c.raised = "ValueError"
             /\ c.raised = None => c.obj.api_key
    /\ \A j \in DOMAIN embedding_calls : embedding_calls[j].obj.api_key

\* a construction without any key failed, one with the key in the environment
\* only left a client
C19_Witness ==
    /\ Len(constructions) = 2
    /\ constructions[1].cls = "anthropic"
    /\ constructions[1].api_key = None
    /\ ~constructions[1].env["ANTHROPIC_API_KEY"]
    /\ constructions[1].raised = "ValueError"
    /\ constructions[2].cls = "anthropic"
    /\ constructions[2].api_key = ""
    /\ constructions[2].raised = None

\* C20: create_embedding of an AnthropicClientWrapper raises the
\* unsupported-operation error for every input and every client, and sends
\* nothing to the provider.
C20_AnthropicNoEmbedding ==
    \A j \in DOMAIN embedding_calls :
        embedding_calls[j].obj.provider = "anthropic" =>
            /\ embedding_calls[j].raised = "NotImplementedError"
            /\ embedding_calls[j].network = 0

\* an Anthropic client was asked to embed a list of more than one batch
C20_Witness ==
    /\ Len(embedding_calls) = 1
    /\ embedding_calls[1].obj.provider = "anthropic"
    /\ embedding_calls[1].len = BatchSize + 1
    /\ embedding_calls[1].raised = "NotImplementedError"


\* C21: an adapter operation of extract_discrete_memories that fails is not
\* invoked again: its exception ends the invocation, and no adapter or chat
\* call is made after it.
C21_FailedOnce ==
    /\ Len(failed_calls) <= 1
    /\ failed_calls # <<>> => pc = "failed" /\ error = "AdapterError"

C21_NothingAfter ==
    failed_calls # <<>> =>
        UNCHANGED <<search_calls, chat_calls, delete_calls, update_calls,
                    index_calls, failed_calls, store, long_term>>

C21_AdapterNotRetried == [](C21_FailedOnce) /\ [][C21_NothingAfter]_vars

\* update_memories failed after a record was processed; nothing was indexed
C21_Witness ==
    /\ failed_calls = <<"update_memories">>
    /\ Len(update_calls) = 1
    /\ chat_calls # <<>>
    /\ index_calls = <<>>
    /\ pc = "failed"


\* C22: when REDIS_MEMORY_CONFIG names a file that does not exist, get_config
\* raises nothing, logs the warning "Config file not found" with the file
\* name, and returns an empty mapping.
C22_MissingConfigFile ==
    LET config_file == os_environ["REDIS_MEMORY_CONFIG"] IN
    (/\ config_pc # "idle"
     /\ config_file \in Paths
     /\ files[config_file].kind = "missing")
    => /\ config_pc = "returned"
       /\ config_raised = None
       /\ config_log = <<[message |-> "Config file not found",
                          config_file |-> config_file]>>
       /\ DOMAIN config_data = {}


\* the provider's count for a usage payload that has token fields
HasTokenFields(cls, usage) ==
    /\ usage.shape \in {"dict", "object"}
    /\ IF cls = "openai" THEN usage.fields.total_tokens.has
       ELSE usage.fields.input_tokens.has \/ usage.fields.output_tokens.has
ProviderCount(cls, usage) ==
    IF cls = "openai" THEN usage.fields.total_tokens.value
    ELSE usage.fields.input_tokens.value + usage.fields.output_tokens.value

\* C23: the ChatResponse of either class has total_tokens 0 when the provider
\* response has no usage data or no token field, and the provider's count
\* otherwise (total_tokens for OpenAI, input_tokens + output_tokens for
\* Anthropic), alike for a dict and for an object payload; a call that got a
\* provider response always returns.
C23_TotalTokens ==
    chat_response # NoResponse =>
        LET usage == provider_response.usage IN
        chat_response.total_tokens =
            IF HasTokenFields(chat_cls, usage)
            THEN ProviderCount(chat_cls, usage) ELSE 0

\* an Anthropic message with a dict usage of 3 input and 5 output tokens
C23_Witness ==
    /\ chat_cls = "anthropic"
    /\ provider_response.usage.shape = "dict"
    /\ provider_response.usage.fields.input_tokens = Field(3)
    /\ provider_response.usage.fields.output_tokens = Field(5)
    /\ chat_response # NoResponse
    /\ chat_response.total_tokens = 8

\* the text of the first textual part of a message, "" if there is none
RECURSIVE FirstText(_)
FirstText(parts) ==
    IF parts = <<>> THEN ""
    ELSE IF Head(parts).has_text THEN Head(parts).text
    ELSE FirstText(Tail(parts))

\* C24: the ChatResponse of an Anthropic message has exactly one choice, whose
\* content is the text of the first textual content part wherever that part
\* stands, and "" only when no part is textual.
C24_FirstTextualPart ==
    (chat_cls = "anthropic" /\ chat_response # NoResponse) =>
        /\ Len(chat_response.choices) = 1
        /\ chat_response.choices[1].message.content
              = FirstText(provider_response.content)


C25_BoundedTopics ==
    \A j \in DOMAIN bertopic_calls :
        LET call == bertopic_calls[j] IN
        (call.raised = None /\ call.n >= 1) => Len(call.ret) <= call.n

\* C29: an explicit record list, the empty list included, is processed as
\* given: no search_memories call is made and the records gone through are
\* exactly the supplied ones.
C29_ExplicitListNotSearched ==
    (input.given /\ pc # "idle") =>
        /\ search_calls = <<>>
        /\ memories = input.list

\* C26: when a record of a batch exhausts its 3 attempts the invocation fails
\* with the retry error and the whole batch is dropped: update_memories and
\* index_long_term_memories have not been called, the records parsed before
\* the failing one keep the flag they had and nothing synthesized from them is
\* in the long-term index; nothing was accumulated or collected for the
\* failing record.
Exhausted(id) ==
    /\ Len(OutcomesFor(id)) = MaxAttempts
    /\ "ok" \notin Range(OutcomesFor(id))

C26_BatchAborted ==
    \A id \in SelectedIds :
        Exhausted(id) =>
            /\ pc = "failed" /\ error = "RetryError"
            /\ update_calls = <<>>
            /\ index_calls = <<>>
            /\ failed_calls = <<>>
            /\ long_term = <<>>
            /\ store = delete_memories(store0,
                          {delete_calls[d][1] : d \in DOMAIN delete_calls})
            /\ \A j \in DOMAIN updated_memories :
                  /\ updated_memories[j].id # id
                  /\ Flag(store, updated_memories[j].id)
                        = Flag(store0, updated_memories[j].id)
            /\ SynthesizedFrom(id) = <<>>

\* the first record of a batch of two was parsed and gave memories, the second
\* exhausted its attempts: the first is still unflagged and nothing is indexed
C26_Witness ==
    /\ pc = "failed" /\ error = "RetryError"
    /\ Len(memories) = 2
    /\ Exhausted(memories[2].id)
    /\ OutcomesFor(memories[1].id) = <<"ok">>
    /\ SynthesizedFrom(memories[1].id) # <<>>
    /\ Ids(updated_memories) = <<memories[1].id>>
    /\ Flag(store0, memories[1].id) = "f"
    /\ Flag(store, memories[1].id) = "f"
    /\ update_calls = <<>> /\ index_calls = <<>> /\ long_term = <<>>

\* ---- the attempts of extract_discrete_memories
\* the dictionaries of a list as the chat model gave them
Dicts(list) == [i \in DOMAIN list |-> [type |-> list[i].type, text |-> list[i].text]]

\* the `memories` lists of the passed attempts among the first k chat calls,
\* one after the other
RECURSIVE PassedMemories(_)
PassedMemories(k) ==
    IF k = 0 THEN <<>>
    ELSE PassedMemories(k - 1)
         \o (IF chat_calls[k].outcome = "ok" THEN Dicts(chat_calls[k].memories)
             ELSE <<>>)

PassedCallsFor(id) == SelectSeq(CallsFor(id), LAMBDA c : c.outcome = "ok")

C27_Accumulated ==
    /\ \A c \in MalformedContents : OutcomeClass(ParseDiscrete(c)) = "malformed"
    /\ Dicts(new_discrete_memories) = PassedMemories(Len(chat_calls))
    /\ \A id \in SelectedIds :
          /\ Len(PassedCallsFor(id)) <= 1
          /\ IF PassedCallsFor(id) = <<>>
             THEN SynthesizedFrom(id) = <<>>
             ELSE Dicts(SynthesizedFrom(id)) = Dicts(PassedCallsFor(id)[1].memories)

C27_FailedAttemptStep ==
    (chat_calls' # chat_calls /\ chat_calls'[Len(chat_calls')].outcome # "ok") =>
        /\ new_discrete_memories' = new_discrete_memories
        /\ updated_memories' = updated_memories
        /\ idx' = idx
        /\ \/ pc' = "loop" /\ attempt_number' = attempt_number + 1
           \/ pc' = "failed" /\ attempt_number = MaxAttempts

\* C27: attempt atomicity.  An attempt whose response is not valid JSON, is
\* not a mapping, lacks `memories` or whose `memories` is not a list is a
\* failed attempt: it adds nothing to the accumulated memories and the record
\* is tried again (or the third failure ends the invocation); the accumulated
\* memories are, record by record, the `memories` list of the record's one
\* passed attempt, added once.
C27_AttemptAtomicity == [](C27_Accumulated) /\ [][C27_FailedAttemptStep]_vars

\* a malformed answer, then an answer with two memories, accumulated once
C27_Witness ==
    /\ pc = "done"
    /\ \E id \in SelectedIds :
          /\ OutcomesFor(id) = <<"malformed", "ok">>
          /\ Dicts(SynthesizedFrom(id)) = Dicts(<<MemSemX, MemNoTypeY>>)
          /\ Len(SynthesizedFrom(id)) = 2

\* C28: the list handed to index_long_term_memories has one record per
\* accumulated dictionary, in accumulation order, each with a fresh id
\* (pairwise distinct, and no id of a source record), the text of the
\* dictionary, its type or 'episodic' when it gives none, and the flag 't';
\* the call carries the caller's `deduplicate`; no call is made when nothing
\* was synthesized.
SourceIds == {store0[i].id : i \in DOMAIN store0} \cup SelectedIds

C28_FreshRecordsIndexed ==
    /\ \A c \in DOMAIN index_calls :
          LET records == index_calls[c].records IN
          /\ new_discrete_memories # <<>>
          /\ Len(records) = Len(new_discrete_memories)
          /\ \A i \in DOMAIN records :
                /\ records[i].text = new_discrete_memories[i].text
                /\ records[i].text # Absent
                /\ records[i].memory_type =
                      (IF new_discrete_memories[i].type = Absent THEN "episodic"
                       ELSE new_discrete_memories[i].type)
                /\ records[i].discrete_memory_extracted = "t"
                /\ records[i].id \notin SourceIds
                /\ \A k \in DOMAIN records : k # i => records[k].id # records[i].id
          /\ index_calls[c].deduplicate = deduplicate
    /\ (pc = "done" /\ new_discrete_memories = <<>>) => index_calls = <<>>
    /\ (pc = "done" /\ new_discrete_memories # <<>>) => Len(index_calls) = 1

\* two dictionaries, the second without a type, indexed as a semantic and an
\* episodic record with deduplicate=False
C28_Witness ==
    /\ pc = "done"
    /\ ~deduplicate
    /\ Len(index_calls) = 1
    /\ ~index_calls[1].deduplicate
    /\ Dicts(new_discrete_memories) = Dicts(<<MemSemX, MemNoTypeY>>)
    /\ Len(index_calls[1].records) = 2
    /\ index_calls[1].records[1].memory_type = "semantic"
    /\ index_calls[1].records[2].memory_type = "episodic"
    /\ index_calls[1].records[2].text = "Y"
    /\ index_calls[1].records[1].id # index_calls[1].records[2].id

\* C31: every OpenAIClientWrapper whose construction succeeded has non-null
\* completion and embedding clients, with or without a base URL, so
\* create_embedding on it never fails with 'API key is not configured'.
C31_UsableClients ==
    /\ \A j \in DOMAIN constructions :
          (constructions[j].cls = "openai" /\ constructions[j].raised = None) =>
              constructions[j].obj.client
    /\ \A j \in DOMAIN embedding_calls :
          embedding_calls[j].obj.provider = "openai" =>
              embedding_calls[j].raised # "ValueError"

\* ---- what a completed invocation did with each selected record
DeletedIds == {delete_calls[d][1] : d \in DOMAIN delete_calls}

\* the positions at which record id was passed to update_memories
UpdatePositions(id) ==
    {p \in (DOMAIN update_calls) \X (1..MaxRecords) :
        /\ p[2] \in DOMAIN update_calls[p[1]]
        /\ update_calls[p[1]][p[2]].id = id}

\* C32: in a completed invocation every selected record was either deleted
\* (empty text) or passed exactly once to update_memories with the flag 't'
\* (non-empty text), never both and never neither; update_memories was not
\* called when no record had text; the selected records themselves are as they
\* were selected (the flag is set on copies).
C32_DeletedOrUpdated ==
    pc = "done" =>
        /\ \A i \in DOMAIN memories :
              LET id == memories[i].id IN
              IF memories[i].text = ""
              THEN /\ id \in DeletedIds
                   /\ UpdatePositions(id) = {}
              ELSE /\ id \notin DeletedIds
                   /\ Cardinality(UpdatePositions(id)) = 1
                   /\ \A p \in UpdatePositions(id) :
                         update_calls[p[1]][p[2]].discrete_memory_extracted = "t"
        /\ WithText(memories) = <<>> => update_calls = <<>>
        /\ WithText(memories) # <<>> => Len(update_calls) = 1
        /\ input.given /\ input.list # <<>> => memories = input.list
        /\ \A i \in DOMAIN memories :
              \E k \in DOMAIN store0 : memories[i] = store0[k]

\* a given list of an empty record and an unprocessed record with text: the
\* first deleted, the second passed flagged 't' while the given record still
\* says 'f'
C32_Witness ==
    /\ pc = "done"
    /\ input.given
    /\ Len(memories) = 2
    /\ memories[1].text = "" /\ memories[2].text # ""
    /\ DeletedIds = {memories[1].id}
    /\ Ids(update_calls[1]) = <<memories[2].id>>
    /\ update_calls[1][1].discrete_memory_extracted = "t"
    /\ input.list[2].discrete_memory_extracted = "f"
    /\ memories[2].discrete_memory_extracted = "f"

\* ---- the calls of get_model_client that end in a step
CredentialOf(p) == IF p = "openai" THEN "OPENAI_API_KEY" ELSE "ANTHROPIC_API_KEY"

\* task t's call of get_model_client completes in this step
Completes(t) == task_pc[t] = "pending" /\ task_pc'[t] # "pending"

C33_CallStep ==
    \A t \in Tasks :
        Completes(t) =>
            LET p == task_arg[t].value IN
            /\ task_pc'[t] = "raised" <=>
                  \/ p \notin ModelProvider
                  \/ model_clients[p] = 0 /\ ~env[CredentialOf(p)]
            /\ task_pc'[t] = "raised" =>
                  /\ model_clients' = model_clients
                  /\ instances' = instances
            /\ (task_pc'[t] = "returned" /\ model_clients[p] = 0) =>
                  /\ instances' = Append(instances, instances'[Len(instances')])
                  /\ instances'[Len(instances')].provider = p
                  /\ model_clients'[p] = Len(instances')
                  /\ task_result'[t] = model_clients'[p]
                  /\ \A q \in ModelProvider \ {p} : model_clients'[q] = model_clients[q]

\* C33: a failed construction is not cached.  A call of get_model_client that
\* fails (missing credential, unsupported provider value) leaves the cache,
\* the entries of the other providers included, as it was; a later call for
\* the provider, having no entry, constructs again and, if the construction
\* succeeds, stores and returns the new instance.
C33_FailureNotCached == [][C33_CallStep]_vars

\* a call for a provider failed for want of the credential, a later call for
\* the same provider constructed, stored and returned a client
C33_Witness ==
    /\ task_pc[1] = "raised"
    /\ task_pc[2] = "returned"
    /\ task_arg[1].value = "anthropic"
    /\ task_arg[2].value = "anthropic"
    /\ task_result[2] # 0
    /\ model_clients["anthropic"] = task_result[2]
    /\ instances[task_result[2]].provider = "anthropic"

====
